---- MODULE Spec2Model ----
(***************************************************************************)
(* Model of the gittyup orchestration engine: Orchestrator.executeMerge /  *)
(* executeCherryPick (src/src/core/orchestrator.ts), the conflict session  *)
(* of ConflictResolver (src/src/core/conflict-resolver.ts), the driver     *)
(* GitOperations (src/src/core/git-operations.ts), the driver cache of     *)
(* RepoManager (src/src/core/repo-manager.ts) and the pull-request client  *)
(* (github/client.ts).                                                     *)
(*                                                                         *)
(* One invocation of the engine is one run of the state machine.  Every    *)
(* awaited driver call is one action; its outcome (success, conflict, a    *)
(* thrown error) is chosen by the environment.                             *)
(***************************************************************************)
EXTENDS Integers, Sequences, FiniteSets, TLC

\* ---------------------------------------------------------------- bounds
MaxTargets == 2
MaxFiles == 2
MaxCommits == 3
MaxCalls == 4
MaxNames == 2
MaxGroups == 2
MaxGroupRepos == 2
MaxSegLines == 2

\* const DEFAULT_TTL_MS = 5 * 60 * 1000
DEFAULT_TTL_MS == 300000

Repos == 1..MaxTargets
Paths == 1..MaxFiles
Commits == 1..MaxCommits
Names == 1..MaxNames

VARIABLES
  pc,            \* position of the engine inside executeMerge/executeCherryPick
  kind,          \* "merge" | "cherry-pick": which entry point was called
  opts,          \* options {aiMode, createPR, push, fetch}
  targets,       \* the targets argument
  idx,           \* position of the current for-of loop in targets
  results,       \* const results: OperationResult[]
  gitInstances,  \* RepoManager.gitInstances: names with a cached driver
  git,           \* working copy of every repository
  hadStash,      \* const hadStash of the current iteration
  cp,            \* locals of GitOperations.cherryPick
  session,       \* const session of the running startSession
  fileIdx,       \* loop variable i of startSession
  suggestion,    \* TRUE while the ai-suggest follow-up prompt is open
  lastChoice,    \* history: the answer the operator gave in the last step
  github,        \* Orchestrator.github is set
  prIdx,         \* position of attachPRs' loop in results
  prLog,         \* history: what attachPRs did for each result it visited
  prCalls,       \* history: the createPR calls of attachPRs, in order
  fetchLog,      \* history: target indices whose fetch was attempted, in order
  trace,         \* history of the run, per target index
  driverLog,     \* history of the getGit calls made on the registry directly
  manifest,      \* ManifestManager.manifest.groups, in key order
  cache,         \* the entry files of CliCache's directory, by key
  now,           \* Date.now()
  lastSet,       \* history: time and data of the last set call of each key
  refs,          \* branches of one working copy, with the names issued so far
  call,          \* the function called directly, with its arguments
  ret            \* what that call returned

vars == <<pc, kind, opts, targets, idx, results, gitInstances, git, hadStash,
          cp, session, fileIdx, suggestion, lastChoice, github, prIdx, prLog, prCalls,
          fetchLog, trace, driverLog, manifest, cache, now, lastSet, refs, call, ret>>

\* ------------------------------------------------------------ data model
AiModes == {"auto", "suggest", "manual"}

\* ConflictSession of src/src/config/schema.ts; status "none" stands for
\* an absent conflictSession field.
NoSession ==
  [operation |-> "none", files |-> <<>>, resolvedFiles |-> <<>>,
   status |-> "none", conflictBranch |-> <<>>]

NoCherryPick == [k |-> 0, applied |-> <<>>, failedAt |-> 0, success |-> FALSE,
                 attempted |-> <<>>]

\* The working copy as the driver's git commands see it.  tip is the tip
\* commit of the target branch, counted in commits added to it since the run
\* started.
CleanRepo ==
  [cur |-> "other", inProgress |-> "none", unmerged |-> {}, stashEntry |-> FALSE,
   escalationBranch |-> FALSE, tip |-> 0]

\* getGit of one repository name: drivers constructed (new GitOperations),
\* the driver held in the map (0: none; drivers are numbered in the order of
\* their construction), the drivers returned so far, calls that returned and
\* calls that threw.
NoDriver == [constructed |-> 0, cached |-> 0, returned |-> {}, returns |-> 0, throws |-> 0]

\* The keys of the cache and the results stored under them.
CacheKeys == {"k1", "k2"}
CacheData == {"a", "b"}

\* An option the command line did not give.
Undefined == "undefined"

\* The arguments of the compare command that enter its cache key:
\* { left, right, group, repo, conflicts, pr }; here the defaults, and the
\* defaults with --group or with --no-conflicts.
CompareArgs ==
  {a \in [left : {"a"}, right : {"b"}, group : {Undefined, "g"}, repo : {Undefined},
          conflicts : BOOLEAN, pr : {TRUE}] : a.group = Undefined \/ a.conflicts}

\* One property of the object JSON.stringify writes, after the first one;
\* sortKeys leaves out a property that is undefined, null or false.
StringProperty(name, v) ==
  IF v = Undefined THEN "" ELSE ",\"" \o name \o "\":\"" \o v \o "\""
BooleanProperty(name, v) ==
  IF v THEN ",\"" \o name \o "\":true" ELSE ""

\* sortKeys(args), as JSON.stringify spreads it: the kept properties in the
\* order of their sorted names.
sortKeys(args) ==
  BooleanProperty("conflicts", args.conflicts) \o StringProperty("group", args.group)
    \o StringProperty("left", args.left) \o BooleanProperty("pr", args.pr)
    \o StringProperty("repo", args.repo) \o StringProperty("right", args.right)

\* CliCache.buildKey: the key is the digest of this string, and names it.
buildKey(command, args) ==
  "{\"command\":\"" \o command \o "\"" \o sortKeys(args) \o "}"

CompareKeys == {buildKey("compare", a) : a \in CompareArgs}

\* No file of that key exists in the cache directory.
NoEntry == [present |-> FALSE, timestamp |-> 0, expiresAt |-> 0, data |-> "none"]

\* A working copy on a branch other than any conflict branch; no conflict
\* branch was created.
NoRefs == [heads |-> {}, cur |-> "other", issued |-> <<>>]

\* No answer was given in the last step.
NoChoice == [choice |-> "none", ai |-> "none"]

\* No function was called yet; a call that has not returned.
NoCall == [fn |-> "none"]
NoRet == [done |-> FALSE]

\* A call returned v; a call threw.
Returned(v) == [done |-> TRUE, threw |-> FALSE, value |-> v]
Threw == [done |-> TRUE, threw |-> TRUE, value |-> <<>>]

NoTrace ==
  [phase |-> "untouched", stashed |-> FALSE, popAttempted |-> FALSE,
   opClean |-> FALSE, sessionStarted |-> FALSE, committed |-> FALSE,
   pushFailed |-> FALSE, pushed |-> FALSE, stashCalled |-> FALSE,
   firstFiles |-> {}, resolvedAny |-> {}]

\* Ascending sequence of the elements of a set of paths: the order in which
\* git status lists the conflicted paths.
RECURSIVE SortedSeq(_)
SortedSeq(S) ==
  IF S = {} THEN <<>>
  ELSE LET m == CHOOSE x \in S : \A y \in S : x <= y
       IN <<m>> \o SortedSeq(S \ {m})

Range(s) == {s[i] : i \in 1..Len(s)}

\* The engine and the registry after construction.
EngineInit ==
  /\ pc = "idle"
  /\ kind = "none"
  /\ opts = [aiMode |-> "manual", createPR |-> FALSE, push |-> FALSE, fetch |-> TRUE]
  /\ targets = <<>>
  /\ idx = 1
  /\ results = <<>>
  /\ gitInstances = {}
  /\ git = [r \in Repos |-> CleanRepo]
  /\ hadStash = FALSE
  /\ cp = NoCherryPick
  /\ session = NoSession
  /\ fileIdx = 0
  /\ suggestion = FALSE
  /\ lastChoice = NoChoice
  /\ github = FALSE
  /\ prIdx = 0
  /\ prLog = <<>>
  /\ prCalls = <<>>
  /\ fetchLog = <<>>
  /\ trace = [i \in Repos |-> NoTrace]
  /\ driverLog = [r \in Repos |-> NoDriver]
  /\ manifest = <<>>
  /\ cache = [k \in CacheKeys \cup CompareKeys |-> NoEntry]
  /\ now = 0
  /\ lastSet = [k \in CacheKeys \cup CompareKeys |-> NoEntry]
  /\ refs = NoRefs

Init ==
  /\ EngineInit
  /\ call = NoCall
  /\ ret = NoRet

\* ------------------------------------------------------------- helpers
inputVars == <<kind, opts, targets>>
locals == <<hadStash, cp, session, fileIdx, suggestion>>
prVars == <<github, prIdx, prLog, prCalls>>
fnVars == <<call, ret>>
cacheVars == <<cache, now, lastSet>>
storeVars == <<manifest, cacheVars, refs>>
engineVars == <<pc, inputVars, idx, results, git, locals, lastChoice, prVars, fetchLog,
                trace>>

\* Mutant: the loop walks the targets from the last to the first.
TargetIndexReversed(k, n) == n + 1 - k

\* for (const target of targets): the k-th iteration visits targets[k].
TargetIndex(k, n) == k

CurIdx == TargetIndex(idx, Len(targets))
Cur == targets[CurIdx]

\* RepoManager.getGit: a cached driver is returned; otherwise the driver is
\* constructed when the path exists (pathExists is the file system's answer)
\* and the call throws when it does not.
\* Mutant: the map is never found to hold the name.
hasNever(r) == FALSE

\* this.gitInstances.has(repo.name)
has(r) == r \in gitInstances

getGitThrows(r, pathExists) == ~has(r) /\ ~pathExists

\* Mutant: the map entry is made before the path is checked.
getGitCachesBeforeCheck(r, pathExists) == gitInstances \cup {r}

getGit(r, pathExists) ==
  IF has(r) \/ ~pathExists THEN gitInstances ELSE gitInstances \cup {r}

\* What one getGit call for r adds to the history: a cached driver is
\* returned as it is; otherwise a driver is constructed, stored and returned
\* when the path exists, and the call throws when it does not.
getGitLog(r, pathExists) ==
  LET d == driverLog[r]
  IN IF has(r)
       THEN [driverLog EXCEPT ![r].returned = @ \cup {d.cached},
                              ![r].returns = @ + 1]
       ELSE IF pathExists
         THEN [driverLog EXCEPT ![r].constructed = @ + 1,
                                ![r].cached = d.constructed + 1,
                                ![r].returned = @ \cup {d.constructed + 1},
                                ![r].returns = @ + 1]
         ELSE [driverLog EXCEPT ![r].throws = @ + 1]

ErrorResult(r) ==
  [repo |-> r, status |-> "error", message |-> "err",
   conflictSession |-> NoSession, prUrl |-> ""]

\* Mutant: the catch block swallows the error without recording a result.
CatchResultDropped(res, r) == res

\* catch (err) { results.push({ repo, status: 'error', ... }) }
CatchResult(res, r) == Append(res, ErrorResult(r))

\* Mutant: a clean operation is recorded as a conflict.
CleanResultAsConflict(r, k) ==
  [repo |-> r, status |-> "conflict",
   message |-> IF k = "merge" THEN "Merged" ELSE "Applied",
   conflictSession |-> NoSession, prUrl |-> ""]

\* Result of a clean merge / cherry-pick.
CleanResult(r, k) ==
  [repo |-> r, status |-> "success",
   message |-> IF k = "merge" THEN "Merged" ELSE "Applied",
   conflictSession |-> NoSession, prUrl |-> ""]

\* Mutant: every result recorded after a session is a conflict.
SessionResultAlwaysConflict(r, k, s) ==
  [repo |-> r, status |-> "conflict",
   message |-> IF k = "merge" THEN "unresolved" ELSE "Conflict at",
   conflictSession |-> s, prUrl |-> ""]

\* Result recorded after a conflict session returned.
SessionResult(r, k, s) ==
  [repo |-> r,
   status |-> IF s.status = "resolved" THEN "success" ELSE "conflict",
   message |-> IF s.status = "resolved"
                 THEN (IF k = "merge" THEN "Conflicts resolved" ELSE "Resolved and applied")
                 ELSE (IF k = "merge" THEN "unresolved" ELSE "Conflict at"),
   conflictSession |-> s, prUrl |-> ""]

\* End of one iteration of the per-target loop.
NextIteration ==
  /\ idx' = idx + 1
  /\ pc' = "loop"
  /\ hadStash' = FALSE
  /\ cp' = NoCherryPick
  /\ session' = NoSession
  /\ fileIdx' = 0
  /\ suggestion' = FALSE

\* The history of a conflict session is kept until the session is recorded.
SessionOver(tr) == [tr EXCEPT ![CurIdx].firstFiles = {}, ![CurIdx].resolvedAny = {}]

Finished(tr) == [SessionOver(tr) EXCEPT ![CurIdx].phase = "finished"]

\* An error thrown inside the try block of the current iteration.
Throw ==
  /\ results' = CatchResult(results, Cur.repo)
  /\ NextIteration

\* ------------------------------------------------------- entry points
\* Size of the explored runs: a run over n targets is explored with conflicts
\* of at most MaxFiles - n + 1 paths and commit lists of at most
\* MaxCommits - n + 1 commits (at least one of each), so that a single target
\* meets the largest conflicts and the largest fleet the smallest.
Scaled(max, n) == IF max - n + 1 >= 1 THEN max - n + 1 ELSE 1

\* Commit lists handed to executeCherryPick: c1..cm, the same list for every
\* target (the CLI's --commits); a merge target carries no commits.
CommitLists(k, n) ==
  IF k = "merge" THEN {<<>>}
  ELSE {[j \in 1..m |-> j] : m \in 1..Scaled(MaxCommits, n)}

\* The i-th target is the i-th repository of the manifest (repository names
\* are unique).  repo.url is read once per repository, in attachPRs, and is
\* chosen there.
TargetLists(k) ==
  UNION {{[i \in 1..n |-> [repo |-> i, commits |-> cs]] :
            cs \in CommitLists(k, n)} : n \in 0..MaxTargets}

\* The sets of conflicted paths git status may report: paths are
\* interchangeable, so the first m of them.
ConflictSets == {1..m : m \in 1..Scaled(MaxFiles, Len(targets))}

Invoke(k) ==
  /\ pc = "idle"
  /\ kind' = k
  /\ \E ts \in TargetLists(k), ai \in AiModes, pr \in BOOLEAN, pu \in BOOLEAN,
        fe \in BOOLEAN :
       /\ targets' = ts
       /\ opts' = [aiMode |-> ai, createPR |-> pr, push |-> pu, fetch |-> fe]
       /\ pc' = IF fe THEN "fetch" ELSE "loop"
  /\ idx' = 1
  /\ UNCHANGED <<results, gitInstances, git, locals, lastChoice, prVars, fetchLog,
                 trace, fnVars, storeVars, driverLog>>

executeMerge == Invoke("merge")

executeCherryPick == Invoke("cherry-pick")

\* ------------------------------------------------------------ fetch
\* Mutant: the fetch loop has no try/catch per target and stops at the first
\* failure.
fetchStepStopsOnFailure ==
  /\ pc = "fetch"
  /\ idx <= Len(targets)
  /\ \E pathExists \in BOOLEAN :
       /\ gitInstances' = getGit(Cur.repo, pathExists)
       /\ IF getGitThrows(Cur.repo, pathExists)
            THEN pc' = "loop" /\ idx' = 1
            ELSE pc' = pc /\ idx' = idx + 1
  /\ fetchLog' = Append(fetchLog, CurIdx)
  /\ lastChoice' = NoChoice
  /\ UNCHANGED <<fnVars, storeVars, driverLog, inputVars, results, git, locals, prVars, trace>>

\* for (const t of targets) { try { await getGit(t.repo).fetch(...) } catch {} }
fetchStep ==
  /\ pc = "fetch"
  /\ idx <= Len(targets)
  /\ \E pathExists \in BOOLEAN :
       gitInstances' = getGit(Cur.repo, pathExists)
  /\ fetchLog' = Append(fetchLog, CurIdx)
  /\ idx' = idx + 1
  /\ lastChoice' = NoChoice
  /\ UNCHANGED <<fnVars, storeVars, driverLog, pc, inputVars, results, git, locals, prVars, trace>>

fetchDone ==
  /\ pc = "fetch"
  /\ idx > Len(targets)
  /\ pc' = "loop"
  /\ idx' = 1
  /\ lastChoice' = NoChoice
  /\ UNCHANGED <<fnVars, storeVars, driverLog, inputVars, results, gitInstances, git, locals, prVars,
                 fetchLog, trace>>

\* --------------------------------------------------- per-target loop
\* const git = this.repoManager.getGit(target.repo);
loopGetGit ==
  /\ pc = "loop"
  /\ idx <= Len(targets)
  /\ \E pathExists \in BOOLEAN :
       /\ gitInstances' = getGit(Cur.repo, pathExists)
       /\ IF getGitThrows(Cur.repo, pathExists)
            THEN /\ Throw
                 /\ trace' = Finished(trace)
            ELSE /\ pc' = "stash"
                 /\ trace' = [trace EXCEPT ![CurIdx].phase = "running"]
                 /\ UNCHANGED <<idx, results, locals>>
  /\ lastChoice' = NoChoice
  /\ UNCHANGED <<fnVars, storeVars, driverLog, inputVars, git, prVars, fetchLog>>

\* Mutant: stash reports the local changes and leaves them in the working
\* copy.
StashedNothing(wc, had) == wc

\* git stash: the local changes, when there are any, become a stash entry and
\* the working copy and index are clean.
Stashed(wc, had) == [wc EXCEPT !.stashEntry = @ \/ had]

\* const hadStash = await git.stash();
stash ==
  /\ pc = "stash"
  /\ \/ \E had \in BOOLEAN :
          /\ hadStash' = had
          /\ git' = [git EXCEPT ![Cur.repo] = Stashed(@, had)]
          /\ trace' = [trace EXCEPT ![CurIdx].stashed = had,
                                    ![CurIdx].stashCalled = TRUE]
          /\ pc' = "op"
          /\ UNCHANGED <<idx, results, cp, session, fileIdx, suggestion>>
     \/ /\ Throw
        /\ trace' = Finished([trace EXCEPT ![CurIdx].stashCalled = TRUE])
        /\ UNCHANGED git
  /\ lastChoice' = NoChoice
  /\ UNCHANGED <<fnVars, storeVars, driverLog, inputVars, gitInstances, prVars, fetchLog>>

\* ------------------------------------------------- GitOperations.merge
\* Mutant: a failed merge always returns the conflicts list it read.
mergeFailedNeverThrows(conflicted) == "conflict"

\* catch { if (status.conflicted.length > 0) return { success: false,
\* conflicts }; throw new Error('Merge failed') }
mergeFailed(conflicted) == IF conflicted # {} THEN "conflict" ELSE "throw"

\* git.checkout(targetBranch), then git.merge([source, '--no-ff']).  A failed
\* merge returns the conflicts when git status lists conflicted paths and
\* throws otherwise; a failure without conflicted paths can still leave the
\* merge in progress (for instance a failing merge hook).
merge ==
  /\ pc = "op"
  /\ kind = "merge"
  /\ \/ \* checkout throws
        /\ Throw
        /\ trace' = Finished(trace)
        /\ UNCHANGED git
     \/ \* merged cleanly: the merge commit is the new tip of the target branch
        /\ git' = [git EXCEPT ![Cur.repo].cur = "target", ![Cur.repo].tip = @ + 1]
        /\ trace' = [trace EXCEPT ![CurIdx].opClean = TRUE]
        /\ pc' = "clean"
        /\ UNCHANGED <<idx, results, locals>>
     \/ \* the merge failed and git status lists the conflicted paths S
        \E S \in ConflictSets \cup {{}} :
          IF mergeFailed(S) = "conflict"
            THEN \* { success: false, conflicts: status.conflicted }
                 /\ git' = [git EXCEPT ![Cur.repo].cur = "target",
                                       ![Cur.repo].inProgress = "merge",
                                       ![Cur.repo].unmerged = S]
                 /\ pc' = "session"
                 /\ UNCHANGED <<idx, results, locals, trace>>
            ELSE \* throw new Error('Merge failed')
                 \E ip \in {"none", "merge"} :
                   /\ git' = [git EXCEPT ![Cur.repo].cur = "target",
                                         ![Cur.repo].inProgress = ip]
                   /\ Throw
                   /\ trace' = Finished(trace)
     \/ \* merge failed with conflicts and git.status() throws
        \E S \in ConflictSets :
          /\ git' = [git EXCEPT ![Cur.repo].cur = "target",
                                ![Cur.repo].inProgress = "merge",
                                ![Cur.repo].unmerged = S]
          /\ Throw
          /\ trace' = Finished(trace)
  /\ lastChoice' = NoChoice
  /\ UNCHANGED <<fnVars, storeVars, driverLog, inputVars, gitInstances, prVars, fetchLog>>

\* -------------------------------------------- GitOperations.cherryPick
\* await this.git.checkout(targetBranch); const applied = [];
cherryPickCheckout ==
  /\ pc = "op"
  /\ kind = "cherry-pick"
  /\ \/ /\ Throw
        /\ trace' = Finished(trace)
        /\ UNCHANGED git
     \/ /\ git' = [git EXCEPT ![Cur.repo].cur = "target"]
        /\ cp' = [NoCherryPick EXCEPT !.k = 1]
        /\ pc' = "cherry"
        /\ UNCHANGED <<idx, results, hadStash, session, fileIdx, suggestion, trace>>
  /\ lastChoice' = NoChoice
  /\ UNCHANGED <<fnVars, storeVars, driverLog, inputVars, gitInstances, prVars, fetchLog>>

\* Mutant: the loop skips the commit after an applied one.
cherryPickSkipsOne(k) == k + 2

\* Position of the loop after commits[k] was applied.
cherryPickNext(k) == k + 1

\* Mutant: the commits applied before the failure are taken back.
cherryPickThrowsRolledBack(wc, applied) == [wc EXCEPT !.tip = @ - Len(applied)]

\* throw new Error(`cherry-pick failed on ${sha}`): nothing is undone, the
\* commits of applied stay on the target branch.
cherryPickThrows(wc, applied) == wc

\* One iteration of for (const sha of commits): git cherry-pick sha.
cherryPickStep ==
  /\ pc = "cherry"
  /\ cp.k <= Len(Cur.commits)
  /\ LET sha == Cur.commits[cp.k]
         tried == [cp EXCEPT !.attempted = Append(@, sha)]
     IN
     \/ \* applied: the picked commit is the new tip of the target branch
        /\ cp' = [tried EXCEPT !.applied = Append(@, sha), !.k = cherryPickNext(cp.k)]
        /\ git' = [git EXCEPT ![Cur.repo].tip = @ + 1]
        /\ UNCHANGED <<pc, idx, results, hadStash, session, fileIdx,
                       suggestion, trace>>
     \/ \* conflict: { success: false, applied, failedAt: sha, conflicts }
        \E S \in ConflictSets :
          /\ git' = [git EXCEPT ![Cur.repo].inProgress = "cherry-pick",
                                ![Cur.repo].unmerged = S]
          /\ cp' = [tried EXCEPT !.failedAt = sha, !.success = FALSE, !.k = 0]
          /\ pc' = "session"
          /\ UNCHANGED <<idx, results, hadStash, session, fileIdx, suggestion, trace>>
     \/ \* failed without conflicted paths: throw new Error('cherry-pick failed')
        \E ip \in {"none", "cherry-pick"} :
          /\ git' = [git EXCEPT ![Cur.repo] =
                                [cherryPickThrows(@, cp.applied) EXCEPT !.inProgress = ip]]
          /\ Throw
          /\ trace' = Finished(trace)
     \/ \* failed with conflicts and git.status() throws
        \E S \in ConflictSets :
          /\ git' = [git EXCEPT ![Cur.repo].inProgress = "cherry-pick",
                                ![Cur.repo].unmerged = S]
          /\ Throw
          /\ trace' = Finished(trace)
  /\ lastChoice' = NoChoice
  /\ UNCHANGED <<fnVars, storeVars, driverLog, inputVars, gitInstances, prVars, fetchLog>>

\* return { success: true, applied, conflicts: [] }
cherryPickReturn ==
  /\ pc = "cherry"
  /\ cp.k > Len(Cur.commits)
  /\ cp' = [cp EXCEPT !.success = TRUE, !.k = 0]
  /\ trace' = [trace EXCEPT ![CurIdx].opClean = TRUE]
  /\ pc' = "clean"
  /\ lastChoice' = NoChoice
  /\ UNCHANGED <<fnVars, storeVars, driverLog, inputVars, idx, results, gitInstances, git, hadStash, session,
                 fileIdx, suggestion, prVars, fetchLog>>

\* ------------------------------------- clean result (orchestrator 66-72)
\* if (options.push) await git.push(...); results.push({ status: 'success' })
recordClean ==
  /\ pc = "clean"
  /\ \/ /\ opts.push
        /\ Throw
        /\ trace' = Finished([trace EXCEPT ![CurIdx].pushFailed = TRUE])
     \/ /\ results' = Append(results, CleanResult(Cur.repo, kind))
        /\ trace' = [trace EXCEPT ![CurIdx].pushed = opts.push]
        /\ pc' = "pop"
        /\ UNCHANGED <<idx, locals>>
  /\ lastChoice' = NoChoice
  /\ UNCHANGED <<fnVars, storeVars, driverLog, inputVars, gitInstances, git, prVars, fetchLog>>

\* ---------------------------------------- ConflictResolver.startSession
\* Mutant: one resolved file is enough for the session to count as resolved.
AnyResolved(s) == Len(s.resolvedFiles) >= 1

\* if (session.resolvedFiles.length === files.length)
AllResolved(s) == Len(s.resolvedFiles) = Len(s.files)

\* Mutant: the commit prompt follows the loop whatever was resolved.
AfterFilePcAlwaysConfirm(s, i) ==
  IF i <= Len(s.files) THEN "menu" ELSE "confirm"

\* Where startSession continues after the per-file loop position i: the next
\* file's menu, or past the loop the commit prompt (all files resolved) or
\* the retry/abort/leave/escalate prompt.
AfterFilePc(s, i) ==
  IF i <= Len(s.files) THEN "menu"
  ELSE IF AllResolved(s) THEN "confirm" ELSE "action"

\* ... session.status = 'resolved'
AfterFileSession(s, i) ==
  IF i > Len(s.files) /\ AllResolved(s)
    THEN [s EXCEPT !.status = "resolved"]
    ELSE s

\* GitOperations.getConflictedFiles: one ConflictFile per conflicted path
\* that can be read; a path whose read fails is left out (catch { continue }).
getConflictedFiles(unmerged, unreadable) == SortedSeq(unmerged \ unreadable)

NewSession(k, files) ==
  [operation |-> k, files |-> files, resolvedFiles |-> <<>>,
   status |-> "in-progress", conflictBranch |-> <<>>]

\* const files = await this.git.getConflictedFiles(); const session = {...}
startSession ==
  /\ pc = "session"
  /\ \/ \* git.status() throws
        /\ Throw
        /\ trace' = Finished([trace EXCEPT ![CurIdx].sessionStarted = TRUE])
     \/ \E unreadable \in SUBSET git[Cur.repo].unmerged :
          LET s == NewSession(kind, getConflictedFiles(git[Cur.repo].unmerged, unreadable))
          IN /\ session' = AfterFileSession(s, 1)
             /\ fileIdx' = 1
             /\ pc' = AfterFilePc(s, 1)
             /\ suggestion' = FALSE
             /\ trace' = [trace EXCEPT ![CurIdx].sessionStarted = TRUE,
                                       ![CurIdx].firstFiles =
                                         IF trace[CurIdx].sessionStarted THEN @
                                         ELSE Range(s.files)]
             /\ UNCHANGED <<idx, results, hadStash, cp>>
  /\ lastChoice' = NoChoice
  /\ UNCHANGED <<fnVars, storeVars, driverLog, inputVars, gitInstances, git, prVars, fetchLog>>

File == session.files[fileIdx]

\* if (resolved) session.resolvedFiles.push(file.path)
FileResolved(s, path) == [s EXCEPT !.resolvedFiles = Append(@, path)]

\* resolveFile returned true: the file was staged (git add) and is counted.
Staged ==
  LET s == FileResolved(session, File)
  IN /\ git' = [git EXCEPT ![Cur.repo].unmerged = @ \ {File}]
     /\ session' = AfterFileSession(s, fileIdx + 1)
     /\ fileIdx' = fileIdx + 1
     /\ pc' = AfterFilePc(s, fileIdx + 1)
     /\ suggestion' = FALSE
     /\ trace' = [trace EXCEPT ![CurIdx].resolvedAny = @ \cup {File}]
     /\ UNCHANGED <<idx, results, hadStash, cp>>

\* Mutant: a file that is skipped is staged as it is.
SkippedAndStaged ==
  /\ git' = [git EXCEPT ![Cur.repo].unmerged = @ \ {File}]
  /\ session' = AfterFileSession(session, fileIdx + 1)
  /\ fileIdx' = fileIdx + 1
  /\ pc' = AfterFilePc(session, fileIdx + 1)
  /\ suggestion' = FALSE
  /\ UNCHANGED <<idx, results, hadStash, cp, trace>>

\* resolveFile returned false: the file is skipped in this pass.
Skipped ==
  /\ session' = AfterFileSession(session, fileIdx + 1)
  /\ fileIdx' = fileIdx + 1
  /\ pc' = AfterFilePc(session, fileIdx + 1)
  /\ suggestion' = FALSE
  /\ UNCHANGED <<idx, results, hadStash, cp, git, trace>>

\* The strategy menu of the same file is presented again.
MenuAgain ==
  /\ pc' = "menu"
  /\ suggestion' = FALSE
  /\ UNCHANGED <<idx, results, hadStash, cp, session, fileIdx, git, trace>>

\* A staging call of the driver (checkout --ours/--theirs, write, git add)
\* throws: the error leaves startSession and reaches the engine's catch.
StagingThrows ==
  /\ Throw
  /\ trace' = Finished(trace)
  /\ UNCHANGED git

\* Mutant: the AI strategies are offered in every mode.
AiOfferedAlways(mode) == TRUE

\* buildResolutionChoices: the AI strategies are offered in these modes only.
AiOffered(mode) == mode \in {"auto", "suggest"}

\* The operator's answer and what the AI capability gave for it.
Chose(c, a) == lastChoice' = [choice |-> c, ai |-> a]

\* case 'ours': await this.git.resolveUseOurs(file.path); return true
chooseOurs ==
  /\ pc = "menu"
  /\ Chose("ours", "none")
  /\ (Staged \/ StagingThrows)
  /\ UNCHANGED <<fnVars, storeVars, driverLog, inputVars, gitInstances, prVars, fetchLog>>

\* case 'theirs': await this.git.resolveUseTheirs(file.path); return true
chooseTheirs ==
  /\ pc = "menu"
  /\ Chose("theirs", "none")
  /\ (Staged \/ StagingThrows)
  /\ UNCHANGED <<fnVars, storeVars, driverLog, inputVars, gitInstances, prVars, fetchLog>>

\* What a call of the AI capability meets: Copilot answers with content, no
\* GitHub token is found, callCopilot throws (network, HTTP status, expired
\* authorisation), or the response carries no content.
AiOutcomes == {"content", "noToken", "copilotThrows", "emptyResponse"}

\* Mutant: the error of callCopilot is not caught.
createAiResolverUncaught(outcome) ==
  IF outcome = "content" THEN "content"
  ELSE IF outcome = "copilotThrows" THEN "throws"
  ELSE "null"

\* The callback built by createAiResolver: the content, or null when there
\* is no token, when callCopilot throws (caught) or when there is no content.
createAiResolver(outcome) ==
  IF outcome = "content" THEN "content" ELSE "null"

\* await this.callbacks.onAiResolve?.(...) is not inside a try: an error of
\* the callback leaves startSession and reaches the engine's catch.
ResolverThrows ==
  /\ Throw
  /\ trace' = Finished(trace)
  /\ UNCHANGED git

\* Mutant: a file the AI could not resolve is skipped.
AutoFallbackSkips == Skipped

\* console.log('AI could not auto-resolve...'); return this.resolveFile(file)
AutoFallback == MenuAgain

\* case 'ai-auto': content => resolveFile; no content => the menu again
chooseAiAuto ==
  /\ pc = "menu"
  /\ AiOffered(opts.aiMode)
  /\ \E outcome \in AiOutcomes :
       LET resolved == createAiResolver(outcome)
       IN /\ Chose("ai-auto", outcome)
          /\ IF resolved = "throws" THEN ResolverThrows
             ELSE IF resolved = "content" THEN (Staged \/ StagingThrows)
             ELSE AutoFallback
  /\ UNCHANGED <<fnVars, storeVars, driverLog, inputVars, gitInstances, prVars, fetchLog>>

\* Mutant: the suggestion is written and staged as soon as it arrives.
SuggestionApplied == Staged

\* if (suggestion) { ... const accept = await select(...) }: the suggestion
\* is printed and the accept/edit/reject prompt opens.
SuggestionShown ==
  /\ pc' = "suggest"
  /\ suggestion' = TRUE
  /\ UNCHANGED <<idx, results, hadStash, cp, session, fileIdx, git, trace>>

\* case 'ai-suggest': a suggestion opens the accept/edit/reject prompt
chooseAiSuggest ==
  /\ pc = "menu"
  /\ AiOffered(opts.aiMode)
  /\ \E outcome \in AiOutcomes :
       LET shown == createAiResolver(outcome)
       IN /\ Chose("ai-suggest", outcome)
          /\ IF shown = "throws" THEN ResolverThrows
             ELSE IF shown = "content" THEN SuggestionShown
             ELSE MenuAgain
  /\ UNCHANGED <<fnVars, storeVars, driverLog, inputVars, gitInstances, prVars, fetchLog>>

\* manualEdit: empty or whitespace-only content skips the file, any other
\* content is written and staged by resolveFile.
manualEdit(hasContent) ==
  IF hasContent THEN (Staged \/ StagingThrows) ELSE Skipped

\* if (accept === 'accept') { await this.git.resolveFile(...); return true }
acceptSuggestion ==
  /\ pc = "suggest"
  /\ Chose("accept", "content")
  /\ (Staged \/ StagingThrows)
  /\ UNCHANGED <<fnVars, storeVars, driverLog, inputVars, gitInstances, prVars, fetchLog>>

\* if (accept === 'edit') return this.manualEdit(file, suggestion)
editSuggestion ==
  /\ pc = "suggest"
  /\ Chose("edit", "content")
  /\ \E hasContent \in BOOLEAN : manualEdit(hasContent)
  /\ UNCHANGED <<fnVars, storeVars, driverLog, inputVars, gitInstances, prVars, fetchLog>>

\* reject: return this.resolveFile(file)
rejectSuggestion ==
  /\ pc = "suggest"
  /\ Chose("reject", "content")
  /\ MenuAgain
  /\ UNCHANGED <<fnVars, storeVars, driverLog, inputVars, gitInstances, prVars, fetchLog>>

\* case 'manual': return this.manualEdit(file)
chooseManual ==
  /\ pc = "menu"
  /\ Chose("manual", "none")
  /\ \E hasContent \in BOOLEAN : manualEdit(hasContent)
  /\ UNCHANGED <<fnVars, storeVars, driverLog, inputVars, gitInstances, prVars, fetchLog>>

\* case 'skip': return false
chooseSkip ==
  /\ pc = "menu"
  /\ Chose("skip", "none")
  /\ Skipped
  /\ UNCHANGED <<fnVars, storeVars, driverLog, inputVars, gitInstances, prVars, fetchLog>>

\* case 'view-full': this.showFullConflict(file); return this.resolveFile(file)
chooseViewFull ==
  /\ pc = "menu"
  /\ Chose("view-full", "none")
  /\ MenuAgain
  /\ UNCHANGED <<fnVars, storeVars, driverLog, inputVars, gitInstances, prVars, fetchLog>>

\* ------------------------------------------------- session completion
\* The commits of the current target that cherryPick did not try.
Untried == IF kind = "cherry-pick" THEN Len(Cur.commits) - Len(cp.attempted) ELSE 0

\* Mutant: the commit continues the cherry-pick over the untried commits.
commitResolutionContinues(wc, untried) ==
  [wc EXCEPT !.inProgress = "none", !.tip = @ + 1 + untried]

\* GitOperations.commitResolution: git commit concludes the merge, or the
\* pick of the one commit that conflicted, with one commit.
commitResolution(wc, untried) ==
  [wc EXCEPT !.inProgress = "none", !.tip = @ + 1]

\* const shouldCommit = await confirm(...); if (shouldCommit) commitResolution
\* git commit concludes the merge or cherry-pick; it fails while paths are
\* still unmerged.
confirmCommit ==
  /\ pc = "confirm"
  /\ \/ \* confirmed and committed
        /\ git[Cur.repo].unmerged = {}
        /\ git' = [git EXCEPT ![Cur.repo] = commitResolution(@, Untried)]
        /\ trace' = [trace EXCEPT ![CurIdx].committed = TRUE]
        /\ pc' = "sessionDone"
        /\ UNCHANGED <<idx, results, locals>>
     \/ \* confirmed, commitResolution throws
        /\ Throw
        /\ trace' = Finished(trace)
        /\ UNCHANGED git
  /\ Chose("commit", "none")
  /\ UNCHANGED <<fnVars, storeVars, driverLog, inputVars, gitInstances, prVars, fetchLog>>

declineCommit ==
  /\ pc = "confirm"
  /\ pc' = "sessionDone"
  /\ Chose("decline", "none")
  /\ UNCHANGED <<fnVars, storeVars, driverLog, inputVars, idx, results, gitInstances, git, locals, prVars,
                 fetchLog, trace>>

\* case 'retry': return this.startSession(operation, sourceBranch, targetBranch)
chooseRetry ==
  /\ pc = "action"
  /\ pc' = "session"
  /\ session' = NoSession
  /\ fileIdx' = 0
  /\ Chose("retry", "none")
  /\ UNCHANGED <<fnVars, storeVars, driverLog, inputVars, idx, results, gitInstances, git, hadStash, cp,
                 suggestion, prVars, fetchLog, trace>>

\* Mutant: abort marks the session pending without calling the driver's abort.
chooseAbortNoRollback ==
  /\ pc = "action"
  /\ session' = [session EXCEPT !.status = "pending"]
  /\ pc' = "sessionDone"
  /\ Chose("abort", "none")
  /\ UNCHANGED <<fnVars, storeVars, driverLog, inputVars, idx, results, gitInstances, git, hadStash, cp,
                 fileIdx, suggestion, prVars, fetchLog, trace>>

\* case 'abort': abortMerge() / cherryPickAbort(); session.status = 'pending'
chooseAbort ==
  /\ pc = "action"
  /\ \/ /\ git' = [git EXCEPT ![Cur.repo].inProgress = "none",
                              ![Cur.repo].unmerged = {}]
        /\ session' = [session EXCEPT !.status = "pending"]
        /\ pc' = "sessionDone"
        /\ UNCHANGED <<idx, results, hadStash, cp, fileIdx, suggestion, trace>>
     \/ /\ Throw
        /\ trace' = Finished(trace)
        /\ UNCHANGED git
  /\ Chose("abort", "none")
  /\ UNCHANGED <<fnVars, storeVars, driverLog, inputVars, gitInstances, prVars, fetchLog>>

\* Mutant: leaving the conflicts as they are marks the session pending.
LeftAsPending(s) == [s EXCEPT !.status = "pending"]

\* default: session.status = 'in-progress'
Left(s) == [s EXCEPT !.status = "in-progress"]

\* 'Leave as-is (partial resolution)'
chooseLeave ==
  /\ pc = "action"
  /\ session' = Left(session)
  /\ pc' = "sessionDone"
  /\ Chose("leave", "none")
  /\ UNCHANGED <<fnVars, storeVars, driverLog, inputVars, idx, results, gitInstances, git, hadStash, cp,
                 fileIdx, suggestion, prVars, fetchLog, trace>>

\* createConflictBranch('conflict-resolution', `${repo.name}-${targetBranch}`)
ConflictBranchName(r) == <<"conflict-resolution", r>>

\* Mutant: the escalation resets the target branch to where the run found it.
checkoutLocalBranchAfterReset(wc) ==
  [wc EXCEPT !.cur = "escalation", !.escalationBranch = TRUE, !.tip = 0]

\* git.checkoutLocalBranch(branchName), that is git checkout -b: the new branch
\* is created at HEAD and checked out; no branch tip moves and the index and
\* the operation in progress are kept.
checkoutLocalBranch(wc) ==
  [wc EXCEPT !.cur = "escalation", !.escalationBranch = TRUE]

\* case 'escalate': createConflictBranch(...); the merge stays in progress.
chooseEscalate ==
  /\ pc = "action"
  /\ \/ /\ git' = [git EXCEPT ![Cur.repo] = checkoutLocalBranch(@)]
        /\ session' = [session EXCEPT !.conflictBranch = ConflictBranchName(Cur.repo),
                                      !.status = "escalated"]
        /\ pc' = "sessionDone"
        /\ UNCHANGED <<idx, results, hadStash, cp, fileIdx, suggestion, trace>>
     \/ /\ Throw
        /\ trace' = Finished(trace)
        /\ UNCHANGED git
  /\ Chose("escalate", "none")
  /\ UNCHANGED <<fnVars, storeVars, driverLog, inputVars, gitInstances, prVars, fetchLog>>

\* ------------------------- result after a session (orchestrator 77-83)
\* Mutant: the target branch is pushed after every session when push is set.
PushesAfterAnySession(s) == opts.push

\* if (session.status === 'resolved' && options.push) await git.push(...)
PushesAfterSession(s) == s.status = "resolved" /\ opts.push

\* if (session.status === 'resolved' && options.push) await git.push(...)
\* results.push({ status: resolved ? 'success' : 'conflict', conflictSession })
recordSession ==
  /\ pc = "sessionDone"
  /\ \/ /\ PushesAfterSession(session)
        /\ Throw
        /\ trace' = Finished([trace EXCEPT ![CurIdx].pushFailed = TRUE])
     \/ /\ results' = Append(results, SessionResult(Cur.repo, kind, session))
        /\ trace' = [SessionOver(trace) EXCEPT ![CurIdx].pushed = PushesAfterSession(session)]
        /\ pc' = "pop"
        /\ UNCHANGED <<idx, locals>>
  /\ lastChoice' = NoChoice
  /\ UNCHANGED <<fnVars, storeVars, driverLog, inputVars, gitInstances, git, prVars, fetchLog>>

\* Mutant: the branch the stash was taken on is checked out for the restore.
stashPoppedOnOriginal(wc, popped) == [wc EXCEPT !.stashEntry = ~popped, !.cur = "other"]

\* git stash pop: applied to the working copy as it is, on the branch that
\* is checked out; the entry is dropped when it applied.
stashPopped(wc, popped) == [wc EXCEPT !.stashEntry = ~popped]

\* if (hadStash) { try { await git.stashPop(); } catch {} }  -- end of try
stashPop ==
  /\ pc = "pop"
  /\ IF hadStash
       THEN /\ \E popped \in BOOLEAN :
                 git' = [git EXCEPT ![Cur.repo] = stashPopped(@, popped)]
            /\ trace' = Finished([trace EXCEPT ![CurIdx].popAttempted = TRUE])
       ELSE /\ UNCHANGED git
            /\ trace' = Finished(trace)
  /\ NextIteration
  /\ lastChoice' = NoChoice
  /\ UNCHANGED <<fnVars, storeVars, driverLog, inputVars, results, gitInstances, prVars, fetchLog>>

\* ------------------------------------------- after the per-target loop
\* if (options.createPR) await this.attachPRs(...); const gh = await getGitHub()
\* GitHubClient.create throws when no GitHub token can be found.  Without
\* createPR: Dashboard.renderOperationResults(results); return results
loopDone ==
  /\ pc = "loop"
  /\ idx > Len(targets)
  /\ IF opts.createPR
       THEN \/ /\ github' = TRUE
               /\ prIdx' = 1
               /\ pc' = "attachPRs"
            \/ /\ ~github
               /\ pc' = "thrown"
               /\ UNCHANGED <<github, prIdx>>
       ELSE /\ pc' = "returned"
            /\ UNCHANGED <<github, prIdx>>
  /\ UNCHANGED <<prLog, prCalls>>
  /\ lastChoice' = NoChoice
  /\ UNCHANGED <<fnVars, storeVars, driverLog, inputVars, idx, results, gitInstances, git, locals, fetchLog, trace>>

\* targets.find((t) => t.repo.name === result.repo): index of the first
\* target of that name, 0 when there is none.
FindTarget(ts, r) ==
  IF \E i \in 1..Len(ts) : ts[i].repo = r
    THEN CHOOSE i \in 1..Len(ts) : ts[i].repo = r /\ \A j \in 1..(i - 1) : ts[j].repo # r
    ELSE 0

\* if (result.status !== 'success' && result.status !== 'conflict') continue
PRCandidate(res) == res.status \in {"success", "conflict"}

\* Mutant: a failed PR creation turns the result into an error.
WithPrUrlOrError(res, url) ==
  IF url # "" THEN [res EXCEPT !.prUrl = url] ELSE [res EXCEPT !.status = "error"]

\* if (pr.url) result.prUrl = pr.url
WithPrUrl(res, url) == IF url # "" THEN [res EXCEPT !.prUrl = url] ELSE res

\* target.targetBranch of the i-th target; branch names are not interpreted.
targetBranch(i) == <<"targetBranch", i>>

\* Mutant: the head of the pull request is always the target branch.
PrHeadAlwaysTarget(res, t) == targetBranch(t)

\* const head = result.conflictSession?.conflictBranch || target.targetBranch
PrHead(res, t) ==
  IF res.conflictSession.conflictBranch # <<>>
    THEN res.conflictSession.conflictBranch
    ELSE targetBranch(t)

\* gh.createPR({ ..., head, base: target.targetBranch, ... })
PullRequestConfig(i, res, t) ==
  [result |-> i, head |-> PrHead(res, t), base |-> targetBranch(t)]

\* One iteration of for (const result of results) in attachPRs.  hasUrl is
\* target.repo.url being set.  createPR returns url '' on an API error;
\* getRepoOwner throws before createPR is called, findExistingPR throws
\* inside it; the loop body catches both.
attachPR ==
  /\ pc = "attachPRs"
  /\ prIdx <= Len(results)
  /\ LET t == FindTarget(targets, results[prIdx].repo)
         config == PullRequestConfig(prIdx, results[prIdx], t)
     IN IF PRCandidate(results[prIdx]) /\ t # 0
          THEN \E hasUrl \in BOOLEAN :
                 IF hasUrl
                   THEN \/ \E url \in {"", "url"} :
                             /\ results' = [results EXCEPT ![prIdx] = WithPrUrl(@, url)]
                             /\ prLog' = Append(prLog, IF url = "" THEN "failed" ELSE "created")
                             /\ prCalls' = Append(prCalls, config)
                        \/ \E called \in BOOLEAN :
                             /\ UNCHANGED results
                             /\ prLog' = Append(prLog, "failed")
                             /\ prCalls' = IF called THEN Append(prCalls, config) ELSE prCalls
                   ELSE /\ UNCHANGED <<results, prCalls>>
                        /\ prLog' = Append(prLog, "noUrl")
          ELSE /\ UNCHANGED <<results, prCalls>>
               /\ prLog' = Append(prLog, "skipped")
  /\ prIdx' = prIdx + 1
  /\ lastChoice' = NoChoice
  /\ UNCHANGED <<fnVars, storeVars, driverLog, pc, inputVars, idx, gitInstances, git, locals, github, fetchLog, trace>>

\* End of attachPRs; Dashboard.renderOperationResults(results); return results
attachPRsDone ==
  /\ pc = "attachPRs"
  /\ prIdx > Len(results)
  /\ pc' = "returned"
  /\ lastChoice' = NoChoice
  /\ UNCHANGED <<fnVars, storeVars, driverLog, inputVars, idx, results, gitInstances, git, locals, prVars,
                 fetchLog, trace>>

Next ==
  \/ executeMerge \/ executeCherryPick
  \/ fetchStep \/ fetchDone
  \/ loopGetGit \/ stash \/ merge
  \/ cherryPickCheckout \/ cherryPickStep \/ cherryPickReturn
  \/ recordClean
  \/ startSession
  \/ chooseOurs \/ chooseTheirs \/ chooseAiAuto \/ chooseAiSuggest
  \/ acceptSuggestion \/ editSuggestion \/ rejectSuggestion
  \/ chooseManual \/ chooseSkip \/ chooseViewFull
  \/ confirmCommit \/ declineCommit
  \/ chooseRetry \/ chooseAbort \/ chooseLeave \/ chooseEscalate
  \/ recordSession \/ stashPop
  \/ loopDone \/ attachPR \/ attachPRsDone

Spec == Init /\ [][Next]_vars

\* ============================================== RepoManager, called directly
\* The manifest: its groups in the order of the file, each with its
\* repositories in order.  A repository's path stands for its descriptor: two
\* repositories of one name in different groups have different paths.
RECURSIVE SeqsOver(_, _)
SeqsOver(S, n) ==
  IF n = 0 THEN {<<>>}
  ELSE LET shorter == SeqsOver(S, n - 1)
       IN shorter \cup {Append(q, x) : q \in {t \in shorter : Len(t) = n - 1},
                                       x \in S}

\* Sequences of at most n elements of S without repetition.
DistinctSeqs(S, n) ==
  {q \in SeqsOver(S, n) : \A i, j \in 1..Len(q) : i # j => q[i] # q[j]}

\* The repositories a group of the given name can hold: their names are unique
\* within the group (ManifestManager.addRepo).
GroupRepos(g, n) ==
  {[i \in 1..Len(q) |-> [name |-> q[i], path |-> <<g, i>>]] :
     q \in DistinctSeqs(Names, n)}

RECURSIVE GroupsNamed(_, _)
GroupsNamed(q, n) ==
  IF q = <<>> THEN {<<>>}
  ELSE {<<[name |-> q[1], repos |-> rs]>> \o rest :
          rs \in GroupRepos(q[1], n), rest \in GroupsNamed(Tail(q), n)}

\* Manifests of at most k groups of at most n repositories; group names are
\* the keys of manifest.groups and so unique.
Manifests(k, n) == UNION {GroupsNamed(q, n) : q \in DistinctSeqs(Names, k)}

\* ManifestManager.getGroup: the position of the group of that name, 0 for
\* undefined.
getGroup(m, name) ==
  IF \E g \in 1..Len(m) : m[g].name = name
    THEN CHOOSE g \in 1..Len(m) : m[g].name = name
    ELSE 0

\* { ...r, group: <group name> }
InGroup(r, g) == [name |-> r.name, path |-> r.path, group |-> g]

\* ManifestManager.getAllRepos: the repositories of all groups, flattened in
\* manifest order, each annotated with its group.
RECURSIVE getAllRepos(_)
getAllRepos(m) ==
  IF m = <<>> THEN <<>>
  ELSE [i \in 1..Len(m[1].repos) |-> InGroup(m[1].repos[i], m[1].name)]
         \o getAllRepos(Tail(m))

\* Array.prototype.find: the first element of that name, as a list of at most
\* one element.
FindRepo(all, name) ==
  IF \E i \in 1..Len(all) : all[i].name = name
    THEN <<all[CHOOSE i \in 1..Len(all) :
                 all[i].name = name /\ \A j \in 1..(i - 1) : all[j].name # name]>>
    ELSE <<>>

\* Mutant: a repository of the name takes precedence over a group of the name.
getReposForTargetRepoFirst(m, target) ==
  LET g == getGroup(m, target)
      found == FindRepo(getAllRepos(m), target)
  IN IF found # <<>> THEN Returned(found)
     ELSE IF g # 0
       THEN Returned([i \in 1..Len(m[g].repos) |-> InGroup(m[g].repos[i], m[g].name)])
       ELSE Threw

\* RepoManager.getReposForTarget
getReposForTarget(m, target) ==
  LET g == getGroup(m, target)
      found == FindRepo(getAllRepos(m), target)
  IN IF g # 0
       THEN Returned([i \in 1..Len(m[g].repos) |-> InGroup(m[g].repos[i], m[g].name)])
       ELSE IF found # <<>> THEN Returned(found) ELSE Threw

\* The getGit calls made so far.
GetGitCalls ==
  LET RECURSIVE Sum(_)
      Sum(S) == IF S = {} THEN 0
                ELSE LET r == CHOOSE x \in S : TRUE
                     IN driverLog[r].returns + driverLog[r].throws + Sum(S \ {r})
  IN Sum(Repos)

\* repoManager.getGit(repo), for any repository and any state of its path.
callGetGit ==
  /\ GetGitCalls < MaxCalls
  /\ \E r \in Repos, pathExists \in BOOLEAN :
       /\ gitInstances' = getGit(r, pathExists)
       /\ driverLog' = getGitLog(r, pathExists)
       /\ call' = [fn |-> "getGit", repo |-> r, pathExists |-> pathExists]
       /\ ret' = IF getGitThrows(r, pathExists)
                   THEN Threw
                   ELSE Returned(driverLog'[r].cached)
  /\ UNCHANGED <<engineVars, storeVars>>

\* repoManager.getReposForTarget(scope), as the commands call it to build the
\* targets of a run.
callGetReposForTarget ==
  /\ GetGitCalls < MaxCalls
  /\ \E m \in Manifests(1, 1), target \in Names :
       /\ call' = [fn |-> "getReposForTarget", manifest |-> m, target |-> target]
       /\ ret' = getReposForTarget(m, target)
  /\ UNCHANGED <<engineVars, gitInstances, driverLog, storeVars>>

RegistryNext == callGetGit \/ callGetReposForTarget

RegistrySpec == Init /\ [][RegistryNext]_vars

\* ========================================== ManifestManager, called directly
\* The paths a repository descriptor can carry.
RepoPaths == 1..MaxNames

\* The repository descriptors given to addRepo.
RepoConfigs == {[name |-> n, path |-> p] : n \in Names, p \in RepoPaths}

\* group.repos.find((r) => r.name === repo.name)
HasRepoNamed(repos, name) == \E i \in 1..Len(repos) : repos[i].name = name

\* group.repos.splice(idx, 1) with idx = findIndex((r) => r.name === repoName)
RemoveNamed(repos, name) ==
  LET found == CHOOSE i \in 1..Len(repos) :
                 repos[i].name = name /\ \A j \in 1..(i - 1) : repos[j].name # name
  IN SubSeq(repos, 1, found - 1) \o SubSeq(repos, found + 1, Len(repos))

\* ManifestManager.addRepo: the group is created when missing; the repository
\* is refused when the group already has one of its name.
addRepo ==
  \E groupName \in Names, repo \in RepoConfigs :
    LET created == IF getGroup(manifest, groupName) = 0
                     THEN Append(manifest, [name |-> groupName, repos |-> <<>>])
                     ELSE manifest
        g == getGroup(created, groupName)
    IN /\ call' = [fn |-> "addRepo", group |-> groupName, repo |-> repo]
       /\ IF HasRepoNamed(created[g].repos, repo.name)
            THEN /\ ret' = Threw
                 /\ manifest' = created
            ELSE /\ ret' = Returned(<<>>)
                 /\ manifest' = [created EXCEPT ![g].repos = Append(@, repo)]
       /\ UNCHANGED <<engineVars, gitInstances, driverLog, cacheVars, refs>>

\* ManifestManager.removeRepo
removeRepo ==
  \E groupName \in Names, repoName \in Names :
    LET g == getGroup(manifest, groupName)
    IN /\ call' = [fn |-> "removeRepo", group |-> groupName, repo |-> repoName]
       /\ IF g = 0 \/ ~HasRepoNamed(manifest[g].repos, repoName)
            THEN /\ ret' = Threw
                 /\ UNCHANGED manifest
            ELSE /\ ret' = Returned(<<>>)
                 /\ manifest' = [manifest EXCEPT ![g].repos = RemoveNamed(@, repoName)]
       /\ UNCHANGED <<engineVars, gitInstances, driverLog, cacheVars, refs>>

\* ManifestManager.createGroup
createGroup ==
  \E name \in Names :
    /\ call' = [fn |-> "createGroup", group |-> name]
    /\ IF getGroup(manifest, name) # 0
         THEN /\ ret' = Threw
              /\ UNCHANGED manifest
         ELSE /\ ret' = Returned(<<>>)
              /\ manifest' = Append(manifest, [name |-> name, repos |-> <<>>])
    /\ UNCHANGED <<engineVars, gitInstances, driverLog, cacheVars, refs>>

\* ManifestManager.removeGroup: delete this.manifest.groups[name]
removeGroup ==
  \E name \in Names :
    LET g == getGroup(manifest, name)
    IN /\ call' = [fn |-> "removeGroup", group |-> name]
       /\ IF g = 0
            THEN /\ ret' = Threw
                 /\ UNCHANGED manifest
            ELSE /\ ret' = Returned(<<>>)
                 /\ manifest' = SubSeq(manifest, 1, g - 1)
                                  \o SubSeq(manifest, g + 1, Len(manifest))
       /\ UNCHANGED <<engineVars, gitInstances, driverLog, cacheVars, refs>>

ManifestNext == addRepo \/ removeRepo \/ createGroup \/ removeGroup

ManifestSpec == Init /\ [][ManifestNext]_vars

\* ================================================= CliCache, called directly
\* The instants at which the cache is used: the start, one millisecond on,
\* and the instants around one and two TTLs later.
Instants ==
  {0, 1, DEFAULT_TTL_MS - 1, DEFAULT_TTL_MS, DEFAULT_TTL_MS + 1, DEFAULT_TTL_MS + 2,
   2 * DEFAULT_TTL_MS + 1, 2 * DEFAULT_TTL_MS + 2}

\* this.ttlMs: every CliCache of the program is constructed with the default.
ttlMs == DEFAULT_TTL_MS

\* Mutant: an entry never expires.
ExpiredNever(entry, t) == FALSE

\* now > entry.expiresAt
Expired(entry, t) == t > entry.expiresAt

otherVars == <<engineVars, gitInstances, driverLog, manifest, refs>>

\* Time passes between two calls.
tick ==
  /\ \E t \in Instants : t > now /\ now' = t
  /\ UNCHANGED <<cache, lastSet, fnVars, otherVars>>

\* CliCache.get: a miss when the file is absent; an expired entry is removed
\* and reported as a miss; otherwise a hit with the data and its age.
get ==
  \E key \in CacheKeys :
    LET entry == cache[key]
    IN /\ call' = [fn |-> "get", key |-> key]
       /\ IF ~entry.present
            THEN /\ ret' = Returned([hit |-> FALSE])
                 /\ UNCHANGED cache
            ELSE IF Expired(entry, now)
              THEN /\ ret' = Returned([hit |-> FALSE])
                   /\ cache' = [cache EXCEPT ![key] = NoEntry]
              ELSE /\ ret' = Returned([hit |-> TRUE, data |-> entry.data,
                                       ageMs |-> now - entry.timestamp])
                   /\ UNCHANGED cache
       /\ UNCHANGED <<now, lastSet, otherVars>>

\* The entry CliCache.set writes at instant t.
Entry(t, data) ==
  [present |-> TRUE, timestamp |-> t, expiresAt |-> t + ttlMs, data |-> data]

\* CliCache.set: the entry is written with timestamp now and
\* expiresAt now + ttlMs.
set ==
  \E key \in CacheKeys, data \in CacheData :
    LET entry == Entry(now, data)
    IN /\ call' = [fn |-> "set", key |-> key, data |-> data]
       /\ ret' = Returned(<<>>)
       /\ cache' = [cache EXCEPT ![key] = entry]
       /\ lastSet' = [lastSet EXCEPT ![key] = entry]
       /\ UNCHANGED <<now, otherVars>>

\* The directory after prune at instant t.
Pruned(c, t) ==
  [k \in DOMAIN c |-> IF c[k].present /\ Expired(c[k], t) THEN NoEntry ELSE c[k]]

\* CliCache.prune: every expired entry is removed; returns their number.
prune ==
  LET expired == {k \in DOMAIN cache : cache[k].present /\ Expired(cache[k], now)}
  IN /\ call' = [fn |-> "prune"]
     /\ ret' = Returned(Cardinality(expired))
     /\ cache' = Pruned(cache, now)
     /\ UNCHANGED <<now, lastSet, otherVars>>

\* CliCache.clear: every entry is removed; returns their number.
clear ==
  /\ call' = [fn |-> "clear"]
  /\ ret' = Returned(Cardinality({k \in DOMAIN cache : cache[k].present}))
  /\ cache' = [k \in DOMAIN cache |-> NoEntry]
  /\ UNCHANGED <<now, lastSet, otherVars>>

CacheNext == tick \/ get \/ set \/ prune \/ clear

CacheSpec == Init /\ [][CacheNext]_vars

\* ================================================== the compare command
\* Mutant: only --force bypasses the cache.
UsesCacheUnlessForce(o) == ~o.force

\* if (!opts.force && !opts.fetch)
UsesCache(o) == ~o.force /\ ~o.fetch

\* gatherCompareData(manifest, repos, target, left, right, { fetch,
\* checkConflicts }): the rows describe those branches of that target as
\* they are at instant t.
gatherCompareData(a, t) ==
  [target |-> IF a.group # Undefined THEN a.group ELSE a.repo,
   left |-> a.left, right |-> a.right, checkConflicts |-> a.conflicts, at |-> t]

\* The action of the compare command: prune, then the cached result when
\* the cache may be used and holds one, else gather (which may throw), the
\* pull-request lookup, and set.
compare ==
  \E a \in CompareArgs, force \in BOOLEAN, fetch \in BOOLEAN, ok \in BOOLEAN :
    LET o == [force |-> force, fetch |-> fetch]
        cacheKey == buildKey("compare", a)
        kept == Pruned(cache, now)
        cached == kept[cacheKey]
        hit == UsesCache(o) /\ cached.present /\ ~Expired(cached, now)
        data == [rows |-> gatherCompareData(a, now), prData |-> a.pr]
    IN /\ call' = [fn |-> "compare", args |-> a, opts |-> o]
       /\ IF hit
            THEN /\ ok
                 /\ ret' = Returned([rendered |-> cached.data, cached |-> TRUE,
                                     gathered |-> FALSE])
                 /\ cache' = kept
                 /\ UNCHANGED lastSet
            ELSE IF ok
              THEN /\ ret' = Returned([rendered |-> data, cached |-> FALSE,
                                       gathered |-> TRUE])
                   /\ cache' = [kept EXCEPT ![cacheKey] = Entry(now, data)]
                   /\ lastSet' = [lastSet EXCEPT ![cacheKey] = Entry(now, data)]
              ELSE /\ ret' = Threw
                   /\ cache' = kept
                   /\ UNCHANGED lastSet
       /\ UNCHANGED <<now, otherVars>>

CompareNext == tick \/ compare

CompareSpec == Init /\ [][CompareNext]_vars

\* ======================== GitOperations.createConflictBranch, called directly
\* new Date().toISOString().replace(/[:.]/g, '-').slice(0, 19): the instant
\* of the call, to the second.
Timestamp(t) == t \div 1000

\* `${prefix}/${label}-${ts}`
BranchName(prefix, label, ts) == <<prefix, label, ts>>

\* Mutant: a branch of that name is never found to exist.
BranchExistsNever(heads, branchName) == FALSE

\* git checkout -b fails when a branch of that name exists.
BranchExists(heads, branchName) == branchName \in heads

\* The escalation of a session of repository name on its target branch:
\* createConflictBranch('conflict-resolution', `${repo.name}-${targetBranch}`);
\* git itself may fail as well.
createConflictBranch ==
  /\ Len(refs.issued) < MaxCalls
  /\ \E name \in Names, gitFails \in BOOLEAN :
       LET prefix == "conflict-resolution"
           label == <<name, "develop">>
           branchName == BranchName(prefix, label, Timestamp(now))
       IN /\ call' = [fn |-> "createConflictBranch", prefix |-> prefix, label |-> label]
          /\ IF gitFails \/ BranchExists(refs.heads, branchName)
               THEN /\ ret' = Threw
                    /\ UNCHANGED refs
               ELSE /\ ret' = Returned(branchName)
                    /\ refs' = [heads |-> refs.heads \cup {branchName},
                                cur |-> branchName,
                                issued |-> Append(refs.issued, branchName)]
  /\ UNCHANGED <<cacheVars, engineVars, gitInstances, driverLog, manifest>>

BranchNext == tick \/ createConflictBranch

BranchSpec == Init /\ [][BranchNext]_vars

\* ===================================================== functions, called directly
\* ---------------------------------- GitOperations.parseConflictMarkers
\* A line is a sequence of characters.  "x" stands for any character that is
\* neither whitespace nor the start of a marker; "<", "|", "=" and ">" each
\* stand for the seven-character marker prefix made of that character.
ContentLines == {<<>>, <<"x">>, <<"x", " ">>}

Whitespace == {" ", "\n"}

\* line.startsWith(marker)
StartsWith(line, marker) == line # <<>> /\ line[1] = marker

\* String.prototype.trimEnd
RECURSIVE trimEnd(_)
trimEnd(str) ==
  IF str # <<>> /\ str[Len(str)] \in Whitespace
    THEN trimEnd(SubSeq(str, 1, Len(str) - 1))
    ELSE str

\* The loop of parseConflictMarkers over content.split('\n').
RECURSIVE ParseLines(_, _, _)
ParseLines(lines, section, acc) ==
  IF lines = <<>> THEN acc
  ELSE LET line == Head(lines)
           rest == Tail(lines)
       IN IF StartsWith(line, "<") THEN ParseLines(rest, "ours", acc)
          ELSE IF StartsWith(line, "|") THEN ParseLines(rest, "base", acc)
          ELSE IF StartsWith(line, "=") THEN ParseLines(rest, "theirs", acc)
          ELSE IF StartsWith(line, ">") THEN ParseLines(rest, "none", acc)
          ELSE IF section = "ours"
            THEN ParseLines(rest, section, [acc EXCEPT !.ours = @ \o line \o <<"\n">>])
          ELSE IF section = "base"
            THEN ParseLines(rest, section, [acc EXCEPT !.base = @ \o line \o <<"\n">>])
          ELSE IF section = "theirs"
            THEN ParseLines(rest, section, [acc EXCEPT !.theirs = @ \o line \o <<"\n">>])
          ELSE ParseLines(rest, section, acc)

\* return { ours: ours.trimEnd(), theirs: theirs.trimEnd(), base: base.trimEnd() }
parseConflictMarkers(lines) ==
  LET acc == ParseLines(lines, "none", [ours |-> <<>>, theirs |-> <<>>, base |-> <<>>])
  IN [ours |-> trimEnd(acc.ours), theirs |-> trimEnd(acc.theirs),
      base |-> trimEnd(acc.base)]

\* The lines of a well-formed conflict block: begin marker, ours lines,
\* optionally the base separator and base lines, separator, theirs lines, end
\* marker.
BlockLines(b) ==
  <<(<<"<">>)>> \o b.ours
    \o (IF b.hasBase THEN <<(<<"|">>)>> \o b.base ELSE <<>>)
    \o <<(<<"=">>)>> \o b.theirs \o <<(<<">">>)>>

\* The bytes of a segment of the file: its lines joined by newlines.
RECURSIVE JoinLines(_)
JoinLines(lines) ==
  IF lines = <<>> THEN <<>>
  ELSE IF Len(lines) = 1 THEN lines[1]
  ELSE lines[1] \o <<"\n">> \o JoinLines(Tail(lines))

ParseCalls ==
  {[fn |-> "parseConflictMarkers", ours |-> o, hasBase |-> hb, base |-> b, theirs |-> t] :
     o \in SeqsOver(ContentLines, MaxSegLines), hb \in BOOLEAN,
     b \in SeqsOver(ContentLines, 1), t \in SeqsOver(ContentLines, MaxSegLines)}

applyParseConflictMarkers ==
  /\ call.fn = "parseConflictMarkers"
  /\ ~ret.done
  /\ ret' = Returned(parseConflictMarkers(BlockLines(call)))
  /\ UNCHANGED <<call, engineVars, gitInstances, driverLog, storeVars>>

\* ------------------------------ targets of a run (merge and pick commands)
\* Logical branch names given on the command line, and the actual branch
\* names a repository's alias map (repo.branches) can give them.
AliasNames == {"dev", "staging"}
BranchNames == {"develop", "dev"}

\* repo.branches: any map from some of the logical names to actual names.
BranchMaps == UNION {[D -> BranchNames] : D \in SUBSET AliasNames}

\* repo.branches[name] ?? name
resolveBranch(branches, name) ==
  IF name \in DOMAIN branches THEN branches[name] ELSE name

\* Mutant: the alias map of the first repository is used for all of them.
BranchesOfFirst(repos, i) == repos[1].branches

\* The alias map consulted for the i-th repository.
BranchesOf(repos, i) == repos[i].branches

\* repos.map((repo) => ({ repo, sourceBranch: repo.branches[source] ?? source,
\*                        targetBranch: repo.branches[target] ?? target }))
buildTargets(repos, source, target) ==
  [i \in 1..Len(repos) |->
     [repo |-> repos[i].name,
      sourceBranch |-> resolveBranch(BranchesOf(repos, i), source),
      targetBranch |-> resolveBranch(BranchesOf(repos, i), target)]]

BuildCalls ==
  {[fn |-> "buildTargets", repos |-> [i \in 1..n |-> [name |-> i, branches |-> bs[i]]],
    source |-> src, target |-> tgt] :
     n \in 1..MaxTargets, bs \in [Repos -> BranchMaps],
     src \in AliasNames, tgt \in AliasNames}

applyBuildTargets ==
  /\ call.fn = "buildTargets"
  /\ ~ret.done
  /\ ret' = Returned(buildTargets(call.repos, call.source, call.target))
  /\ UNCHANGED <<call, engineVars, gitInstances, driverLog, storeVars>>

\* ------------------------------------------ RepoManager.getReposForTarget
ResolveCalls ==
  {[fn |-> "getReposForTarget", manifest |-> m, target |-> t] :
     m \in Manifests(MaxGroups, MaxGroupRepos), t \in Names}

applyGetReposForTarget ==
  /\ call.fn = "getReposForTarget"
  /\ ~ret.done
  /\ ret' = getReposForTarget(call.manifest, call.target)
  /\ UNCHANGED <<call, engineVars, gitInstances, driverLog, storeVars>>

\* ------------------------- manual-edit of a conflicted file, left unchanged
\* A conflicted file of the working copy: lines common to both versions
\* before the conflict block, the block, and common lines after it.
FileLines(f) ==
  f.before \o BlockLines([ours |-> f.ours, hasBase |-> FALSE, base |-> <<>>,
                          theirs |-> f.theirs]) \o f.after

\* The ours version of that file, which git checkout --ours writes.
OursVersion(f) == JoinLines(f.before \o f.ours \o f.after)

\* files.push({ path, oursContent: ours, theirsContent: theirs, ... })
ConflictFile(f) ==
  LET parsed == parseConflictMarkers(FileLines(f))
  IN [oursContent |-> parsed.ours, theirsContent |-> parsed.theirs,
      baseContent |-> parsed.base]

\* manualEdit with the editor's default left as it is: content is
\* startingContent ?? file.oursContent; empty or whitespace-only content
\* stages nothing, any other content is written and staged by resolveFile.
manualEditUnchanged(file) ==
  LET content == file.oursContent
  IN IF trimEnd(content) = <<>>
       THEN [staged |-> FALSE, content |-> <<>>]
       ELSE [staged |-> TRUE, content |-> content]

\* resolveUseOurs: git checkout --ours, git add.
resolveUseOurs(f) == [staged |-> TRUE, content |-> OursVersion(f)]

EditCalls ==
  {[fn |-> "manualEdit", before |-> b, ours |-> o, theirs |-> t, after |-> a] :
     b \in SeqsOver({<<"x">>}, 1), o \in SeqsOver({<<"x">>}, MaxSegLines),
     t \in SeqsOver({<<"x">>}, 1), a \in SeqsOver({<<"x">>}, 1)}

applyManualEdit ==
  /\ call.fn = "manualEdit"
  /\ ~ret.done
  /\ ret' = Returned([manualEdit |-> manualEditUnchanged(ConflictFile(call)),
                      useOurs |-> resolveUseOurs(call)])
  /\ UNCHANGED <<call, engineVars, gitInstances, driverLog, storeVars>>

FnCalls == ParseCalls \cup BuildCalls \cup ResolveCalls \cup EditCalls

\* The arguments of one call are drawn; the call is then made.
FnInit ==
  /\ EngineInit
  /\ call \in FnCalls
  /\ ret = NoRet

FnNext ==
  \/ applyParseConflictMarkers
  \/ applyBuildTargets
  \/ applyGetReposForTarget
  \/ applyManualEdit

FnSpec == FnInit /\ [][FnNext]_vars

\* ================================================================ claims
Targets == 1..Len(targets)

WC(i) == git[targets[i].repo]

InLoopBody ==
  pc \in {"stash", "op", "cherry", "clean", "session", "menu", "suggest",
          "confirm", "action", "sessionDone"}

AfterLoop == pc \in {"attachPRs", "returned", "thrown"}

IsPrefix(p, q) == Len(p) <= Len(q) /\ \A i \in 1..Len(p) : p[i] = q[i]

\* results holds one entry for each of the first n targets, in target order.
ResultsFollowTargets(n) ==
  /\ Len(results) = n
  /\ \A i \in 1..n : results[i].repo = targets[i].repo

\* C1: executeMerge and executeCherryPick record exactly one OperationResult
\* per target, in target-list order, whatever the outcome of each target: the
\* list has the length and the repository-name sequence of the targets, and a
\* failure in one target does not prevent the processing of later targets.
C1_OneResultPerTarget ==
  /\ pc = "loop" => ResultsFollowTargets(idx - 1)
  /\ InLoopBody => ResultsFollowTargets(idx - 1)
  /\ pc = "pop" => ResultsFollowTargets(idx)
  /\ AfterLoop => ResultsFollowTargets(Len(targets))

\* A run of two targets returned: the first failed, the second was processed.
C1_Witness ==
  /\ pc = "returned"
  /\ Len(targets) = 2
  /\ results[1].status = "error"
  /\ results[2].status = "conflict"

MidOperation(i) == WC(i).inProgress # "none"

\* C2 as stated: when the engine returns, every processed repository is
\* cleanly merged with nothing in progress, escalated onto an escalation
\* branch, or rolled back; none is left mid-merge or mid-cherry-pick.
C2_NoRepositoryLeftMidOperation ==
  pc = "returned" =>
    \A i \in Targets :
      \/ ~MidOperation(i)
      \/ /\ results[i].conflictSession.status = "escalated"
         /\ WC(i).cur = "escalation"

\* C2 amended: when the engine returns, a repository whose operation was
\* clean, whose session was aborted or whose resolved session was committed
\* has no merge or cherry-pick in progress, and an escalated one is on its
\* escalation branch; a repository is left mid-operation only after leave,
\* escalate, a declined commit of a resolved session, or a thrown error.
C2_TerminalStates ==
  pc = "returned" =>
    \A i \in Targets :
      LET r == results[i]
          st == r.conflictSession.status
      IN /\ (r.status = "success" /\ st = "none") => ~MidOperation(i)
         /\ st = "pending" => ~MidOperation(i)
         /\ (st = "resolved" /\ trace[i].committed) => ~MidOperation(i)
         /\ st = "escalated" => (WC(i).cur = "escalation" /\ MidOperation(i))
         /\ MidOperation(i) =>
              \/ r.status = "error"
              \/ st \in {"in-progress", "escalated"}
              \/ st = "resolved" /\ ~trace[i].committed

\* The engine returned and left a repository mid-merge after the operator
\* chose leave.
C2_Witness ==
  /\ pc = "returned"
  /\ \E i \in Targets :
       /\ results[i].conflictSession.status = "in-progress"
       /\ WC(i).inProgress = "merge"
       /\ WC(i).unmerged # {}

\* C3: for every target whose stash() reported stashed changes, the stash
\* restore is attempted before the engine moves on to the next target, on
\* every exit path of the target's processing.
C3_StashRestoreAttempted ==
  \A i \in Targets :
    (trace[i].phase = "finished" /\ trace[i].stashed) => trace[i].popAttempted

\* C4: executeMerge and executeCherryPick never throw because of a
\* per-repository or external-service failure, the pull-request client
\* included.
C4_NeverThrows == pc # "thrown"

\* C5: the pull-request step changes no status, message, repository name or
\* session of any result; it sets prUrl only on the result it is visiting and
\* only to the non-empty URL its PR creation returned; and whatever the
\* outcome for one result it goes on to the next one, so every result has
\* been visited when the step ends.
C5_PRStepOnlySetsUrl ==
  /\ [][pc = "attachPRs" =>
          /\ Len(results') = Len(results)
          /\ \A i \in 1..Len(results) :
               /\ results'[i].repo = results[i].repo
               /\ results'[i].status = results[i].status
               /\ results'[i].message = results[i].message
               /\ results'[i].conflictSession = results[i].conflictSession
               /\ results'[i].prUrl # results[i].prUrl =>
                    /\ i = prIdx
                    /\ results'[i].prUrl # ""
                    /\ prLog'[i] = "created"
          /\ pc' = "attachPRs" => prIdx' = prIdx + 1
          /\ pc' = "returned" => Len(prLog) = Len(results)]_vars
  /\ [](pc = "attachPRs" => Len(prLog) = prIdx - 1)

\* The PR creation failed for the first result and a PR was created for the
\* second.
C5_Witness ==
  /\ pc = "returned"
  /\ Len(results) = 2
  /\ prLog = <<"failed", "created">>
  /\ results[1].prUrl = ""
  /\ results[2].prUrl = "url"

\* C6: unless opts.fetch is false a fetch is attempted for every target, in
\* target order and before any stash or merge/cherry-pick; a failed attempt
\* stops neither the later attempts nor the processing of any target; with
\* opts.fetch false no fetch is issued.
C6_FetchEveryTarget ==
  /\ (pc # "idle" /\ ~opts.fetch) => fetchLog = <<>>
  /\ pc = "fetch" =>
       /\ fetchLog = [i \in 1..(idx - 1) |-> i]
       /\ \A r \in Repos : git[r] = CleanRepo
       /\ \A i \in Targets : trace[i].phase = "untouched"
  /\ (opts.fetch /\ pc \notin {"idle", "fetch"}) =>
       fetchLog = [i \in Targets |-> i]
  /\ AfterLoop => \A i \in Targets : trace[i].phase = "finished"

\* The first target's path was missing when it was fetched; the second was
\* fetched and processed all the same.
C6_Witness ==
  /\ pc = "returned"
  /\ opts.fetch
  /\ Len(targets) = 2
  /\ 1 \notin gitInstances
  /\ fetchLog = <<1, 2>>
  /\ results[2].status = "success"

\* C7: repositories are processed one at a time in target-list order: a
\* target is started only when every target before it is finished, at most
\* the current target is being processed, and no driver operation has touched
\* the working copy of a target that has not been started.
C7_Sequential ==
  \A i \in Targets :
    /\ \A j \in Targets :
         (i < j /\ trace[j].phase # "untouched") => trace[i].phase = "finished"
    /\ trace[i].phase = "untouched" => WC(i) = CleanRepo
    /\ trace[i].phase = "running" => (i = idx /\ (InLoopBody \/ pc = "pop"))

\* The second target is in its conflict session; the first is finished and
\* was left with a stash entry.
C7_Witness ==
  /\ Len(targets) = 2
  /\ trace[1].phase = "finished"
  /\ WC(1).stashEntry
  /\ trace[2].phase = "running"
  /\ pc = "menu"

\* cherryPick has returned to the engine.
CherryPickReturned == cp.k = 0 /\ cp.attempted # <<>>

\* C8: cherryPick attempts the commits in the given order and stops at the
\* first failure: applied and the attempted commits are prefixes of commits;
\* on a conflict at commits[k] it returns success=false, applied =
\* commits[1..k-1], failedAt = commits[k], and nothing after k was attempted;
\* on full success it returns success=true, applied = commits, no failedAt.
C8_CherryPickStopsAtFirstFailure ==
  cp # NoCherryPick =>
    /\ IsPrefix(cp.applied, Cur.commits)
    /\ IsPrefix(cp.attempted, Cur.commits)
    /\ CherryPickReturned =>
         IF cp.success
           THEN /\ cp.applied = Cur.commits
                /\ cp.attempted = Cur.commits
                /\ cp.failedAt = 0
           ELSE /\ Len(cp.applied) < Len(Cur.commits)
                /\ cp.failedAt = Cur.commits[Len(cp.applied) + 1]
                /\ cp.attempted = Append(cp.applied, cp.failedAt)

\* Of three commits the first was applied, the second conflicted and the
\* third was not attempted.
C8_Witness ==
  /\ CherryPickReturned
  /\ Len(Cur.commits) = 3
  /\ ~cp.success
  /\ cp.applied = <<1>>
  /\ cp.failedAt = 2
  /\ cp.attempted = <<1, 2>>

CleanMerged(i) == kind = "merge" /\ trace[i].opClean /\ trace[i].phase = "finished"

NoSessionNoEscalation(i) ==
  /\ results[i].conflictSession = NoSession
  /\ ~trace[i].sessionStarted
  /\ ~WC(i).escalationBranch

\* C9 as stated: for every target whose merge completes without conflicts
\* executeMerge records success with no embedded session, starts no session
\* and creates no escalation branch.
C9_CleanMergeIsSuccess ==
  \A i \in Targets :
    CleanMerged(i) => (results[i].status = "success" /\ NoSessionNoEscalation(i))

\* C9 amended: for every target whose merge completes without conflicts
\* executeMerge records success, unless opts.push is set and the push throws,
\* in which case it records error; in both cases no session is embedded or
\* started and no escalation branch is created.
C9_CleanMergeIsSuccessUnlessPushThrows ==
  \A i \in Targets :
    CleanMerged(i) =>
      /\ NoSessionNoEscalation(i)
      /\ trace[i].pushFailed => (opts.push /\ results[i].status = "error")
      /\ ~trace[i].pushFailed => results[i].status = "success"

\* A clean merge was pushed and recorded as success.
C9_Witness ==
  /\ opts.push
  /\ \E i \in Targets : CleanMerged(i) /\ results[i].status = "success"

\* What C10 says of one returned session.
SessionAccountsForFiles(s) ==
  /\ Range(s.resolvedFiles) \subseteq Range(s.files)
  /\ Cardinality(Range(s.resolvedFiles)) = Len(s.resolvedFiles)
  /\ Range(s.files) \subseteq Range(s.resolvedFiles) =>
       (s.status = "resolved" /\ Len(s.resolvedFiles) = Len(s.files))
  /\ s.status = "resolved" => Range(s.files) \subseteq Range(s.resolvedFiles)

\* C10: a session whose files were all resolved in the per-file loop is
\* returned resolved with resolvedFiles.length = files.length; a session is
\* returned resolved only when resolvedFiles covers files; and resolvedFiles
\* of a returned session holds no path twice and no path outside files.
C10_ResolvedIffAllFilesResolved ==
  /\ pc = "sessionDone" => SessionAccountsForFiles(session)
  /\ \A i \in 1..Len(results) :
       results[i].conflictSession # NoSession =>
         SessionAccountsForFiles(results[i].conflictSession)

\* A session over two conflicted files was returned resolved.
C10_Witness ==
  /\ pc = "sessionDone"
  /\ session.status = "resolved"
  /\ session.files = <<1, 2>>
  /\ Len(session.resolvedFiles) = 2

\* C11: choosing escalate never changes the tip commit of the original target
\* branch: the step only creates and checks out the escalation branch; it
\* applies no commit, reset or abort (the operation in progress and the
\* unmerged paths are kept) and touches no other repository.
C11_EscalateKeepsTargetTip ==
  [][(pc = "action" /\ session'.status = "escalated") =>
       /\ git'[Cur.repo].tip = git[Cur.repo].tip
       /\ git'[Cur.repo].inProgress = git[Cur.repo].inProgress
       /\ git'[Cur.repo].unmerged = git[Cur.repo].unmerged
       /\ git'[Cur.repo].stashEntry = git[Cur.repo].stashEntry
       /\ git[Cur.repo].cur = "target"
       /\ git'[Cur.repo].cur = "escalation"
       /\ git'[Cur.repo].escalationBranch
       /\ \A r \in Repos \ {Cur.repo} : git'[r] = git[r]]_vars

\* A cherry-pick session was escalated after one commit had been applied to
\* the target branch.
C11_Witness ==
  /\ pc = "sessionDone"
  /\ session.status = "escalated"
  /\ kind = "cherry-pick"
  /\ git[Cur.repo].tip = 1
  /\ git[Cur.repo].cur = "escalation"
  /\ git[Cur.repo].inProgress = "cherry-pick"

\* C12: choosing abort fully reverts the operation: when the session is
\* returned with status pending the target branch tip is where it was before
\* the merge or cherry-pick of that target started, nothing is in progress
\* and no path is unmerged, for a merge and for a cherry-pick with any number
\* of commits applied before the conflicting one.
C12_AbortFullyReverts ==
  (pc = "sessionDone" /\ session.status = "pending") =>
    /\ git[Cur.repo].tip = CleanRepo.tip
    /\ git[Cur.repo].inProgress = "none"
    /\ git[Cur.repo].unmerged = {}

\* C13: for any sequence of getGit calls, all calls for one repository name
\* that return give back the same driver instance, the one just returned
\* included, and at most one driver is ever constructed per repository name.
C13_OneDriverPerName ==
  /\ \A r \in Repos :
       /\ driverLog[r].constructed <= 1
       /\ Cardinality(driverLog[r].returned) <= 1
       /\ driverLog[r].returns >= 1 => driverLog[r].returned = {driverLog[r].cached}
  /\ (call.fn = "getGit" /\ ~ret.threw) =>
       driverLog[call.repo].returned = {ret.value}

\* getGit returned three times for the first repository and once for the
\* second.
C13_Witness ==
  /\ driverLog[1].returns = 3
  /\ driverLog[1].constructed = 1
  /\ driverLog[2].returns = 1
  /\ call.fn = "getGit"

\* One getGit call for r has just been made.
GetGitStep(r) == driverLog'[r] # driverLog[r]

C14_ParseKeepsSegments ==
  (call.fn = "parseConflictMarkers" /\ ret.done) =>
    /\ ret.value.ours = JoinLines(call.ours)
    /\ ret.value.theirs = JoinLines(call.theirs)

\* C15: each target's source and target branch are resolved through the
\* alias map of its own repository: the map's entry for the logical name
\* when it has one, the literal name otherwise; the targets follow the
\* repositories one to one.
C15_AliasPerRepository ==
  (call.fn = "buildTargets" /\ ret.done) =>
    /\ ~ret.threw
    /\ Len(ret.value) = Len(call.repos)
    /\ \A i \in 1..Len(call.repos) :
         LET own == call.repos[i].branches
             t == ret.value[i]
         IN /\ t.repo = call.repos[i].name
            /\ call.source \in DOMAIN own => t.sourceBranch = own[call.source]
            /\ call.source \notin DOMAIN own => t.sourceBranch = call.source
            /\ call.target \in DOMAIN own => t.targetBranch = own[call.target]
            /\ call.target \notin DOMAIN own => t.targetBranch = call.target

\* Two repositories of one run resolve dev to different branches, and the
\* second, which has no alias for staging, uses the literal name.
C15_Witness ==
  /\ call.fn = "buildTargets"
  /\ ret.done
  /\ call.source = "dev"
  /\ call.target = "staging"
  /\ Len(ret.value) = 2
  /\ ret.value[1].sourceBranch = "develop"
  /\ ret.value[2].sourceBranch = "dev"
  /\ "staging" \in DOMAIN call.repos[1].branches
  /\ ret.value[1].targetBranch = "dev"
  /\ "staging" \notin DOMAIN call.repos[2].branches
  /\ ret.value[2].targetBranch = "staging"

\* The manifest has a group of that name; it has a repository of that name.
HasGroup(m, name) == \E g \in 1..Len(m) : m[g].name = name
HasRepo(m, name) ==
  \E g \in 1..Len(m) : \E i \in 1..Len(m[g].repos) : m[g].repos[i].name = name

\* C19: getReposForTarget(target) returns all member repositories of the
\* group named target, in manifest order and annotated with the group, when
\* there is such a group, also when a repository has that name; otherwise a
\* one-element list holding a repository of the manifest named target;
\* otherwise it throws and returns nothing.
C19_GroupThenRepoThenThrow ==
  (call.fn = "getReposForTarget" /\ ret.done) =>
    LET m == call.manifest
        t == call.target
    IN /\ HasGroup(m, t) =>
            /\ ~ret.threw
            /\ \E g \in 1..Len(m) :
                 /\ m[g].name = t
                 /\ Len(ret.value) = Len(m[g].repos)
                 /\ \A i \in 1..Len(ret.value) :
                      /\ ret.value[i].name = m[g].repos[i].name
                      /\ ret.value[i].path = m[g].repos[i].path
                      /\ ret.value[i].group = t
       /\ (~HasGroup(m, t) /\ HasRepo(m, t)) =>
            /\ ~ret.threw
            /\ Len(ret.value) = 1
            /\ ret.value[1].name = t
            /\ \E g \in 1..Len(m) : \E i \in 1..Len(m[g].repos) :
                 /\ m[g].repos[i].name = t
                 /\ m[g].repos[i].path = ret.value[1].path
                 /\ m[g].name = ret.value[1].group
       /\ (~HasGroup(m, t) /\ ~HasRepo(m, t)) =>
            (ret.threw /\ ret.value = <<>>)

\* The target names a group of two repositories and also a repository of
\* another group: the group's members are returned.
C19_Witness ==
  /\ call.fn = "getReposForTarget"
  /\ ret.done
  /\ HasGroup(call.manifest, call.target)
  /\ HasRepo(call.manifest, call.target)
  /\ Len(ret.value) = 2
  /\ \A i \in 1..2 : ret.value[i].group = call.target

\* The step keeps the session on the same file with the strategy menu open:
\* nothing is staged, counted or recorded.
SameFileMenuAgain ==
  /\ pc' = "menu"
  /\ fileIdx' = fileIdx
  /\ session' = session
  /\ git' = git
  /\ results' = results
  /\ idx' = idx

\* C16: when ai-auto is chosen for a file and the AI capability gives null
\* or no content, the file is neither staged nor counted as resolved nor
\* skipped and the menu of the same file is presented again; the session
\* moves to the next file only by a choice that resolves the file (it is
\* staged and counted) or skips it, never by a choice the AI gave nothing for.
C16_AiAutoNullShowsMenuAgain ==
  [][ /\ (pc = "menu" /\ lastChoice'.choice = "ai-auto" /\ lastChoice'.ai # "content")
         => /\ SameFileMenuAgain
            /\ File \in git'[Cur.repo].unmerged
            /\ File \notin Range(session'.resolvedFiles)
      /\ (pc \in {"menu", "suggest"} /\ fileIdx' # fileIdx /\ session'.status # "none")
         => /\ fileIdx' = fileIdx + 1
            /\ lastChoice'.ai \in {"none", "content"}
            /\ \/ /\ session'.resolvedFiles = Append(session.resolvedFiles, File)
                  /\ File \notin git'[Cur.repo].unmerged
               \/ /\ lastChoice'.choice \in {"skip", "manual", "edit"}
                  /\ session'.resolvedFiles = session.resolvedFiles
                  /\ git' = git
    ]_vars

\* The AI gave no content for the second file of a session whose first file
\* is resolved: the menu of the second file is open again.
C16_Witness ==
  /\ pc = "menu"
  /\ lastChoice = [choice |-> "ai-auto", ai |-> "emptyResponse"]
  /\ fileIdx = 2
  /\ session.resolvedFiles = <<1>>
  /\ File \in git[Cur.repo].unmerged

\* C17: choosing ai-suggest stages nothing and writes nothing: with a
\* suggestion the follow-up prompt opens, without one the menu of the same
\* file is presented again; while the prompt is open the file is still
\* conflicted and not counted; from the prompt only accept and
\* accept-and-edit change the working copy or the session, and reject
\* presents the menu of the same file again with everything unchanged.
C17_SuggestNeedsAnswer ==
  /\ [](pc = "suggest" =>
          /\ suggestion
          /\ File \in git[Cur.repo].unmerged
          /\ File \notin Range(session.resolvedFiles))
  /\ [][ /\ (pc = "menu" /\ lastChoice'.choice = "ai-suggest")
            => /\ git' = git
               /\ session' = session
               /\ fileIdx' = fileIdx
               /\ results' = results
               /\ pc' = IF lastChoice'.ai = "content" THEN "suggest" ELSE "menu"
         /\ pc = "suggest"
            => /\ lastChoice'.choice \in {"accept", "edit", "reject"}
               /\ (git' # git \/ session' # session \/ fileIdx' # fileIdx)
                  => lastChoice'.choice \in {"accept", "edit"}
               /\ lastChoice'.choice = "reject" => SameFileMenuAgain
       ]_vars

\* A suggestion for the second file was shown and rejected: the file is
\* still conflicted and its menu is open again.
C17_Witness ==
  /\ pc = "menu"
  /\ lastChoice = [choice |-> "reject", ai |-> "content"]
  /\ fileIdx = 2
  /\ File \in git[Cur.repo].unmerged
  /\ File \notin Range(session.resolvedFiles)

\* C18: a failure of the AI capability (no token, an error of callCopilot,
\* no content), for ai-auto and for ai-suggest alike, is not fatal: the
\* session stays in progress on the same file with the menu open, the loop
\* over the targets stays on the repository, and no result is recorded or
\* changed by the step.
C18_AiFailureNotFatal ==
  [][ lastChoice'.ai \in AiOutcomes \ {"content"}
        => /\ lastChoice'.choice \in {"ai-auto", "ai-suggest"}
           /\ SameFileMenuAgain
           /\ session'.status = "in-progress"
           /\ Len(results') < idx'
           /\ trace'[CurIdx].phase # "finished"
           /\ UNCHANGED <<hadStash, cp, trace>>
    ]_vars

\* callCopilot threw while a suggestion was asked for the only file of the
\* second target: the menu is open and the first target's result stands.
C18_Witness ==
  /\ pc = "menu"
  /\ lastChoice = [choice |-> "ai-suggest", ai |-> "copilotThrows"]
  /\ idx = 2
  /\ Len(results) = 1
  /\ session.status = "in-progress"
  /\ fileIdx = 1

\* C21: after any sequence of addRepo, removeRepo, createGroup and
\* removeGroup, no two repositories of the manifest, in one group or in
\* different groups, have the same name.
C21_RepoNamesUnique ==
  LET all == getAllRepos(manifest)
  IN \A i, j \in 1..Len(all) : i # j => all[i].name # all[j].name

\* The positions of a running conflict session of the current target.
InSession == pc \in {"session", "menu", "suggest", "confirm", "action", "sessionDone"}

\* C22: the commit prompt opens only for a session whose status is resolved
\* with every file of the session resolved, and only a step from that prompt
\* calls commitResolution (the commit is made, or the call throws); no step
\* of a partially resolved, aborted, left or escalated session commits; and
\* declining the prompt returns the session with status resolved and the
\* working copy as it was, no commit made.
C22_CommitOnlyWhenResolvedAndConfirmed ==
  /\ [](pc = "confirm" =>
          /\ session.status = "resolved"
          /\ AllResolved(session)
          /\ \A f \in Range(session.files) : f \notin git[Cur.repo].unmerged)
  /\ []((InSession /\ session.status \in {"pending", "in-progress", "escalated"})
          => ~trace[CurIdx].committed)
  /\ [][ /\ (InSession /\ (git'[Cur.repo].tip # git[Cur.repo].tip
                             \/ trace'[CurIdx].committed # trace[CurIdx].committed))
            => /\ pc = "confirm"
               /\ trace'[CurIdx].committed
               /\ git'[Cur.repo].tip = git[Cur.repo].tip + 1
               /\ session' = session
         /\ (pc = "confirm" /\ pc' = "sessionDone" /\ ~trace'[CurIdx].committed)
            => /\ session' = session
               /\ session'.status = "resolved"
               /\ git' = git
       ]_vars

\* Both files of a merge conflict were resolved and the operator confirmed:
\* the resolution is committed.
C22_Witness ==
  /\ pc = "sessionDone"
  /\ kind = "merge"
  /\ session.status = "resolved"
  /\ Len(session.files) = 2
  /\ trace[CurIdx].committed
  /\ git[Cur.repo].tip = 1
  /\ git[Cur.repo].inProgress = "none"

\* C23: with createPR set, a pull request is attempted for a result exactly
\* when its status is success or conflict and its target repository has a
\* URL: an error result is passed over, a repository without URL gets no
\* attempt, and without createPR nothing is attempted.  Every createPR call
\* is made for an attempted result, at most once per result, with base the
\* target branch of the result's own target and head the session's
\* escalation branch when the session was escalated, the target branch
\* otherwise.
C23_PullRequestForSuccessAndConflict ==
  /\ ~opts.createPR => (prLog = <<>> /\ prCalls = <<>>)
  /\ Len(prLog) <= Len(results)
  /\ \A i \in 1..Len(prLog) :
       /\ results[i].status = "error" <=> prLog[i] = "skipped"
       /\ results[i].status \in {"success", "conflict"}
            <=> prLog[i] \in {"created", "failed", "noUrl"}
       /\ prLog[i] = "created" => \E c \in 1..Len(prCalls) : prCalls[c].result = i
       /\ results[i].prUrl # "" => prLog[i] = "created"
  /\ \A c \in 1..Len(prCalls) :
       LET i == prCalls[c].result
       IN /\ i \in 1..Len(prLog)
          /\ prLog[i] \in {"created", "failed"}
          /\ \A d \in 1..(c - 1) : prCalls[d].result < i
          /\ targets[i].repo = results[i].repo
          /\ prCalls[c].base = targetBranch(i)
          /\ prCalls[c].head =
               IF results[i].conflictSession.status = "escalated"
                 THEN ConflictBranchName(results[i].repo)
                 ELSE targetBranch(i)

\* The first target's session was escalated and its pull request goes from
\* the escalation branch to the target branch; the second target ended in
\* error and is passed over.
C23_Witness ==
  /\ pc = "returned"
  /\ Len(results) = 2
  /\ results[1].conflictSession.status = "escalated"
  /\ prLog = <<"created", "skipped">>
  /\ results[2].status = "error"
  /\ prCalls = <<[result |-> 1, head |-> ConflictBranchName(1), base |-> targetBranch(1)]>>

\* C24: startSession returns a session with status resolved only when all its
\* files are resolved (through the commit prompt), escalated only by the
\* choice escalate, pending only by the choice abort, in-progress only by the
\* choice leave, and with no other status; the choice retry returns nothing
\* and starts another pass; conflictBranch is non-empty exactly when the
\* status is escalated, in the returned session and in every result that
\* embeds one.
C24_ReturnedSessionStatus ==
  /\ [](pc = "sessionDone" =>
          /\ session.status \in {"resolved", "escalated", "pending", "in-progress"}
          /\ session.status = "resolved"
               <=> (AllResolved(session) /\ lastChoice.choice \in {"commit", "decline"})
          /\ session.status = "escalated" <=> lastChoice.choice = "escalate"
          /\ session.status = "pending" <=> lastChoice.choice = "abort"
          /\ session.status = "in-progress" <=> lastChoice.choice = "leave"
          /\ session.status # "resolved" => ~AllResolved(session)
          /\ session.conflictBranch # <<>> <=> session.status = "escalated")
  /\ [](\A i \in 1..Len(results) :
          results[i].conflictSession.conflictBranch # <<>>
            <=> results[i].conflictSession.status = "escalated")
  /\ [][ lastChoice'.choice = "retry"
           => /\ pc = "action"
              /\ pc' = "session"
              /\ results' = results
              /\ git' = git
              /\ idx' = idx ]_vars

\* A session over two files, one resolved, was left as it is: it is returned
\* in progress and without escalation branch.
C24_Witness ==
  /\ pc = "sessionDone"
  /\ lastChoice.choice = "leave"
  /\ session.status = "in-progress"
  /\ Len(session.files) = 2
  /\ Len(session.resolvedFiles) = 1
  /\ session.conflictBranch = <<>>

C27_PushOnlyOnSuccess ==
  /\ [](\A i \in 1..Len(targets) :
          /\ (trace[i].pushed \/ trace[i].pushFailed) => opts.push
          /\ trace[i].pushed =>
               /\ i <= Len(results)
               /\ results[i].status = "success"
               /\ (trace[i].opClean
                     \/ results[i].conflictSession.status = "resolved")
          /\ (i <= Len(results) /\ results[i].status = "conflict") =>
               (~trace[i].pushed /\ ~trace[i].pushFailed)
          /\ (i <= Len(results) /\ results[i].status = "error") => ~trace[i].pushed
          /\ (i <= Len(results) /\ results[i].status = "success") =>
               (trace[i].pushed <=> opts.push))
  /\ [][ (pc \notin {"idle", "attachPRs", "returned", "thrown"}
            /\ idx <= Len(targets)
            /\ (trace'[CurIdx].pushed # trace[CurIdx].pushed
                  \/ trace'[CurIdx].pushFailed # trace[CurIdx].pushFailed))
           => /\ opts.push
              /\ \/ pc = "clean"
                 \/ pc = "sessionDone" /\ session.status = "resolved"
       ]_vars

\* With push set, the first target's session was escalated and nothing was
\* pushed for it; the second target's session ended resolved and its branch
\* was pushed.
C27_Witness ==
  /\ opts.push
  /\ Len(results) = 2
  /\ results[1].conflictSession.status = "escalated"
  /\ ~trace[1].pushed
  /\ results[2].conflictSession.status = "resolved"
  /\ trace[2].pushed

\* The step merges, cherry-picks, commits or pushes in the i-th target's
\* repository.
Operates(i) ==
  LET r == targets[i].repo
  IN \/ git'[r].tip # git[r].tip
     \/ git'[r].inProgress # git[r].inProgress
     \/ git'[r].unmerged # git[r].unmerged
     \/ trace'[i].committed # trace[i].committed
     \/ trace'[i].pushed # trace[i].pushed
     \/ trace'[i].pushFailed # trace[i].pushFailed

\* C28: for every target, every merge, cherry-pick, resolution, commit and
\* push step in its repository comes after the stash call and before the
\* stash restore; while these steps run, changes the stash call reported
\* are held in the stash entry and not in the working copy; the restore is
\* attempted at the end of the target's processing only, and after it no
\* step of the run commits to or pushes the target's repository.
C28_StashBracketsOperation ==
  /\ [](\A i \in 1..Len(targets) :
          /\ (trace[i].opClean \/ trace[i].sessionStarted \/ trace[i].committed
                \/ trace[i].pushed \/ trace[i].pushFailed \/ trace[i].popAttempted)
               => trace[i].stashCalled
          /\ trace[i].popAttempted => (trace[i].stashed /\ trace[i].phase = "finished"))
  /\ [][ \A i \in 1..Len(targets) :
           /\ Operates(i) =>
                /\ i = CurIdx
                /\ trace[i].stashCalled
                /\ ~trace[i].popAttempted
                /\ ~trace'[i].popAttempted
                /\ trace[i].stashed =>
                     (git[targets[i].repo].stashEntry /\ git'[targets[i].repo].stashEntry)
           /\ trace'[i].popAttempted # trace[i].popAttempted =>
                /\ i = CurIdx
                /\ pc = "pop"
                /\ idx' = idx + 1
                /\ ~Operates(i)
       ]_vars

\* Local changes were stashed, the conflicts of the merge were resolved and
\* committed, the branch was pushed, and then the stash was restored.
C28_Witness ==
  /\ Len(targets) >= 1
  /\ trace[1].stashed
  /\ trace[1].sessionStarted
  /\ trace[1].committed
  /\ trace[1].pushed
  /\ trace[1].popAttempted
  /\ ~git[targets[1].repo].stashEntry
  /\ git[targets[1].repo].tip = 1

\* C29: the pass that the choice retry starts runs over exactly the files
\* that are still unresolved: every path still conflicted in the working
\* copy is presented again, no path resolved in an earlier pass is, and the
\* pass starts with nothing counted as resolved.
C29_RetryPresentsUnresolvedFiles ==
  [][ (pc = "session" /\ lastChoice.choice = "retry" /\ session'.status # "none")
        => /\ Range(session'.files) = git[Cur.repo].unmerged
           /\ Cardinality(Range(session'.files)) = Len(session'.files)
           /\ session'.resolvedFiles = <<>>
           /\ git' = git
    ]_vars

\* C30: get reports a hit only for an entry whose age is within the TTL of
\* five minutes: the data returned is the data of the key's last set call,
\* that call is at most the TTL old, and the age reported is that age; a get
\* of an entry past its expiry is a miss and removes the entry; and whatever
\* set, get, prune and clear calls came before, get never returns data older
\* than the TTL.
C30_NoHitPastTtl ==
  /\ [][ (call'.fn = "get" /\ now' = now /\ ret'.done /\ ret'.value.hit) =>
           LET last == lastSet[call'.key]
           IN /\ last.present
              /\ ret'.value.data = last.data
              /\ ret'.value.ageMs = now - last.timestamp
              /\ ret'.value.ageMs >= 0
              /\ ret'.value.ageMs <= DEFAULT_TTL_MS
              /\ cache' = cache
       ]_vars
  /\ [][ (call'.fn = "get" /\ now' = now /\ cache' # cache)
           => /\ ~ret'.value.hit
              /\ cache[call'.key].present
              /\ now - cache[call'.key].timestamp > DEFAULT_TTL_MS
              /\ cache' = [cache EXCEPT ![call'.key] = NoEntry]
       ]_vars
  /\ [][ (call'.fn = "get" /\ now' = now /\ ret'.done
            /\ cache[call'.key].present
            /\ now - cache[call'.key].timestamp > DEFAULT_TTL_MS)
           => (~ret'.value.hit /\ ~cache'[call'.key].present)
       ]_vars

\* An entry set at the start was read as a hit exactly one TTL later, and
\* one millisecond after that the read of it was a miss that removed it.
C30_Witness ==
  /\ call = [fn |-> "get", key |-> "k1"]
  /\ ret.done
  /\ ~ret.value.hit
  /\ lastSet["k1"].present
  /\ lastSet["k1"].timestamp = 0
  /\ now = DEFAULT_TTL_MS + 1
  /\ ~cache["k1"].present
  /\ cache["k2"].present

\* C31: a compare given --force or --fetch never serves cached data: it
\* gathers fresh data and overwrites the cache entry of its key with it.
\* Without those flags a compare whose key holds an entry within the TTL is
\* served that entry without gathering.  Compares with different arguments
\* do not share an entry: what is served from the cache was gathered for
\* the same arguments, and a compare writes no entry but that of its key.
C31_CompareCache ==
  [][ (call'.fn = "compare" /\ now' = now /\ ret'.done /\ ~ret'.threw) =>
        LET a == call'.args
            o == call'.opts
            key == buildKey("compare", a)
            out == ret'.value
        IN /\ (o.force \/ o.fetch) =>
                /\ out.gathered /\ ~out.cached
                /\ out.rendered.rows.at = now
                /\ cache'[key] = Entry(now, out.rendered)
           /\ (~o.force /\ ~o.fetch /\ cache[key].present
                 /\ now - cache[key].timestamp <= DEFAULT_TTL_MS) =>
                /\ out.cached /\ ~out.gathered
                /\ out.rendered = cache[key].data
                /\ cache'[key] = cache[key]
           /\ out.cached =>
                out.rendered = [rows |-> gatherCompareData(a, cache[key].timestamp),
                                prData |-> a.pr]
           /\ \A b \in CompareArgs \ {a} :
                /\ buildKey("compare", b) # key
                /\ cache'[buildKey("compare", b)] \in {cache[buildKey("compare", b)], NoEntry}
    ]_vars

\* A compare with --group was served from the cache exactly one TTL after
\* it was gathered, while the entry of the same branches without --group,
\* gathered later, is in the cache as well.
C31_Witness ==
  /\ call.fn = "compare"
  /\ call.args.group = "g"
  /\ ret.done /\ ~ret.threw
  /\ ret.value.cached
  /\ now = DEFAULT_TTL_MS
  /\ ret.value.rendered.rows.at = 0
  /\ \E b \in CompareArgs :
       /\ b.group = Undefined
       /\ cache[buildKey("compare", b)].present
       /\ cache[buildKey("compare", b)].timestamp > 0

\* C32: while a conflict session runs, its files list holds every path that
\* is conflicted in the working copy, so a session whose status is resolved
\* leaves no conflicted path unstaged, and a success recorded after a
\* conflict is recorded with no conflicted path left.
C32_SessionHoldsEveryConflictedPath ==
  /\ (pc \in {"menu", "suggest", "confirm", "action"}) =>
       git[Cur.repo].unmerged \subseteq Range(session.files)
  /\ (pc \in {"menu", "suggest", "confirm", "action", "sessionDone"}
        /\ session.status = "resolved") =>
       git[Cur.repo].unmerged = {}

\* C33: a merge step hands the engine success (an empty conflicts list) only
\* when the merge completed, with the merge commit on the target branch and
\* no merge in progress; it hands it a conflict only with a non-empty set of
\* conflicted paths and the merge in progress, never with an empty one; in
\* every other case it throws, and when the checkout of the target failed
\* the merge was not attempted: the working copy is as it was.
C33_MergeOutcome ==
  [][ (pc = "op" /\ kind = "merge") =>
        LET before == git[Cur.repo]
            after == git'[Cur.repo]
            threw == Len(results') = Len(results) + 1
        IN /\ pc' = "clean" =>
                /\ after = [before EXCEPT !.cur = "target", !.tip = @ + 1]
                /\ after.unmerged = {} /\ after.inProgress = "none"
                /\ ~threw
           /\ pc' = "session" =>
                /\ after.unmerged # {}
                /\ after.inProgress = "merge"
                /\ after.tip = before.tip
                /\ ~threw
           /\ pc' \in {"clean", "session"} \/ threw
           /\ threw =>
                /\ results'[Len(results')].status = "error"
                /\ after.tip = before.tip
                /\ after = before \/ after.cur = "target"
    ]_vars

\* A merge failed without conflicted paths and left the merge in progress:
\* the engine recorded the error.
C33_Witness ==
  /\ kind = "merge"
  /\ Len(results) >= 1
  /\ results[Len(results)].status = "error"
  /\ \E r \in Repos :
       /\ git[r].cur = "target"
       /\ git[r].inProgress = "merge"
       /\ git[r].unmerged = {}
       /\ trace[1].phase = "finished"
       /\ ~trace[1].sessionStarted
       /\ targets[1].repo = r

\* C34: for every conflicted file, lines outside the conflict block
\* included, a manual edit whose default content is left unchanged stages
\* the same content as use-ours.
C34_UnchangedEditIsUseOurs ==
  (call.fn = "manualEdit" /\ ret.done) =>
    ret.value.manualEdit = ret.value.useOurs

\* C35: the session returned to the engine accounts for the whole conflict,
\* whatever the number of retry passes: its files list holds every file of
\* the first pass and its resolvedFiles every path staged in any pass.
C35_ReturnedSessionAccountsForAllPasses ==
  (pc = "sessionDone") =>
    /\ trace[CurIdx].firstFiles \subseteq Range(session.files)
    /\ trace[CurIdx].resolvedAny \subseteq Range(session.resolvedFiles)

C38_FailedPickKeepsAppliedCommits ==
  /\ [][ (pc = "cherry" /\ Len(results') = Len(results) + 1) =>
           LET r == Cur.repo
               res == results'[Len(results')]
           IN /\ res.repo = r
              /\ res.status = "error"
              /\ res.conflictSession = NoSession
              /\ "applied" \notin DOMAIN res
              /\ git'[r].tip = Len(cp.applied)
              /\ git'[r].tip = git[r].tip
              /\ git'[r].cur = "target"
       ]_vars
  /\ [][ \A r \in Repos : git'[r].tip >= git[r].tip ]_vars

\* The third commit of a pick failed without conflicted paths: the engine
\* recorded the error and the two commits applied before are on the branch.
C38_Witness ==
  /\ kind = "cherry-pick"
  /\ Len(targets) = 1
  /\ Len(targets[1].commits) = 3
  /\ Len(results) = 1
  /\ results[1].status = "error"
  /\ git[targets[1].repo].tip = 2
  /\ git[targets[1].repo].unmerged = {}
  /\ ~trace[1].opClean
  /\ ~trace[1].sessionStarted

\* The branch of a working copy the engine is done with, given the result
\* recorded for it: the escalation branch after an escalated session, the
\* target branch otherwise.
OnOperationBranch(i) ==
  LET wc == git[targets[i].repo]
      res == results[i]
  IN IF res.conflictSession.status = "escalated"
       THEN wc.cur = "escalation"
       ELSE wc.cur = "target"

\* No step checks out the branch that was current before the operation, and
\* the stash restore is attempted on the target or the escalation branch.
NeverBackToOriginalBranch ==
  [][ /\ \A r \in Repos : git'[r].cur = "other" => git[r].cur = "other"
      /\ (pc = "pop" /\ hadStash) =>
           /\ git[Cur.repo].cur \in {"target", "escalation"}
           /\ git'[Cur.repo].cur = git[Cur.repo].cur
    ]_vars

C40_ResolvedExactlyWhenStaged ==
  /\ []((pc \in {"menu", "suggest"}) =>
          /\ File \in git[Cur.repo].unmerged
          /\ File \notin Range(session.resolvedFiles))
  /\ [][ (pc \in {"menu", "suggest"}) =>
           LET r == Cur.repo
               f == File
               reported == session'.resolvedFiles = Append(session.resolvedFiles, f)
               staged == git'[r] = [git[r] EXCEPT !.unmerged = @ \ {f}]
               choice == lastChoice'.choice
           IN /\ reported <=> git' # git
              /\ git' # git => staged /\ \A q \in Repos \ {r} : git'[q] = git[q]
              /\ ~reported => session'.resolvedFiles \in {session.resolvedFiles, <<>>}
              /\ choice \in {"skip", "view-full", "reject"} => ~reported
              /\ (choice \in {"ai-auto", "ai-suggest"} /\ lastChoice'.ai # "content")
                   => ~reported
              /\ choice = "ai-suggest" => ~reported
              /\ reported => choice \in {"ours", "theirs", "ai-auto", "accept", "edit",
                                         "manual"}
       ]_vars

\* The first file was staged and reported; the second, whose manual edit
\* returned no content, is still conflicted and not reported.
C40_Witness ==
  /\ pc = "action"
  /\ lastChoice.choice = "manual"
  /\ Len(session.files) = 2
  /\ session.resolvedFiles = <<session.files[1]>>
  /\ git[Cur.repo].unmerged = {session.files[2]}
  /\ opts.aiMode = "suggest"

====
